---- MODULE Spec2Model ----
(***************************************************************************)
(* Parallel segmented wheel sieve (Luo's Algorithm 3) of mce-sandbox.      *)
(*                                                                         *)
(* Two drivers share one sieving kernel:                                   *)
(*   "omp" : the OpenMP demonstration primes1.c  (src/unnamed/part_000)    *)
(*   "mce" : algorithm3.pl + Sandbox.pm + algorithm3.c                     *)
(*           (src/unnamed/part_008, src/unnamed/part_003,                  *)
(*            src/src/algorithm3.c, src/src/output.h)                      *)
(*                                                                         *)
(* Bit arrays are byte arrays, functions 0..len-1 -> 0..255, with the      *)
(* LSB-first bit order of the CLRBIT/GETBIT macros.                        *)
(*                                                                         *)
(* TLC cannot hold a 6126120-wide segment in a state, so a run            *)
(* is made under one of four wheel profiles (variable prof):               *)
(*   "full"   the constants of the source for N < 1e12: pre-sieve of       *)
(*            i = 1..5, step_sz = 510510 * 12, worker state (96, 2, 34).   *)
(*            Only ranges far shorter than one segment are enumerated, and *)
(*            only the prefix of pre_sieve that such a run copies is kept. *)
(*   "scaled" the same code with the pre-sieve cut to i = 1..1 (prime 5):  *)
(*            step_sz = 30 * StepMult, worker state (8, 2, 10) which is    *)
(*            the recurrence after i = 1.  Ranges span several segments.   *)
(*   "wheel11" the pre-sieve cut to i = 1..3 (primes 5, 7, 11):            *)
(*            step_sz = 2310, worker state (40, 2, 22).  The template has  *)
(*            primes whose squares lie past the first segment, as the      *)
(*            source's 13 and 17 do.                                       *)
(*   "full19" the constants of the source for N >= 1e12: pre-sieve of      *)
(*            i = 1..6, step_sz = 9699690, worker state (120, 1, 38), on   *)
(*            short ranges as under "full".                                *)
(*                                                                         *)
(* Specifications:                                                         *)
(*   Spec        whole runs in the three modes, with write failures        *)
(*   SpecArgs    refused arguments and failing allocations                 *)
(*   SpecRange   ranges that start anywhere, under the three profiles      *)
(*   SpecOrdered primes1 with the ordered construct at its own grain       *)
(*   FairOrdered SpecOrdered under fair scheduling of the threads          *)
(*   SpecChunks  the chunk bounds alone, up to the largest N               *)
(*   SpecLong    primes1 from the first integers to the largest N          *)
(*   SpecKernel  one sieve loop alone, step by step                        *)
(***************************************************************************)
EXTENDS Integers, Sequences, FiniteSets, TLC

\* ------------------------------------------------------------------ bounds
MaxNFull == 300       \* largest N enumerated under the "full" profile
MaxNScaled == 125     \* largest N enumerated under the "scaled" profile
MaxFFull == 2         \* "full": every N is tried with F = 1..MaxFFull
MaxFScaled == 8       \* "scaled": every N is tried with F = 1..MaxFScaled
MaxSpan == 5          \* every F is tried with N = F..F + MaxSpan
StepMult == 2         \* scaled step_sz = 30 * StepMult (source: 510510 * 12)
MaxWorkers == 2       \* worker counts 1..MaxWorkers
MaxFaults == 1        \* write failures injected per run
WordLimit == 1073741824  \* 2^30, the model's word size (source: 2^64)
SumLimit == 1000      \* the model's limit of --sum (source: 29505444490)
MaxFRange == 100      \* largest F of the ranges of SpecRange
MaxNRange == 190      \* largest N of the ranges of SpecRange
MaxNWheel == 2400     \* largest N of the "wheel11" ranges of SpecRange
MaxNOrdered == 250    \* largest N of the ranges of SpecOrdered
MaxKernelI == 14      \* last wheel index whose pass SpecKernel runs
KernelBytes == 40     \* bytes of the array the passes of SpecKernel walk

\* --------------------------------------------------------------- constants
MODE_COUNT == 1
MODE_PRINT == 2
MODE_SUM == 3
FLUSH_LIMIT == 393000
OMP_FLUSH_LIMIT == 65512
LF == 10

\* ------------------------------------------------------------- arithmetic
Min(a, b) == IF a < b THEN a ELSE b

Pow2(n) == CASE n = 0 -> 1 [] n = 1 -> 2 [] n = 2 -> 4 [] n = 3 -> 8
             [] n = 4 -> 16 [] n = 5 -> 32 [] n = 6 -> 64 [] n = 7 -> 128
             [] OTHER -> 256

\* the root of n by bisection of lo..hi; hi * hi stays within TLC's integers
RECURSIVE isqrt_in(_, _, _)
isqrt_in(n, lo, hi) ==
   IF lo = hi THEN lo
   ELSE LET mid == (lo + hi + 1) \div 2
        IN  IF mid * mid <= n THEN isqrt_in(n, mid, hi)
            ELSE isqrt_in(n, lo, mid - 1)

\* (int64_t) sqrt((double) n): exact for the magnitudes enumerated here
isqrt(n) == isqrt_in(n, 0, IF n < 46340 THEN n ELSE 46340)

\* (x | 1)
Or1(x) == IF x % 2 = 0 THEN x + 1 ELSE x

\* ------------------------------------------------------------- bits.h
popcnt_byte == <<
   0,1,1,2,1,2,2,3,1,2,2,3,2,3,3,4,1,2,2,3,2,3,3,4,2,3,3,4,3,4,4,5,
   1,2,2,3,2,3,3,4,2,3,3,4,3,4,4,5,2,3,3,4,3,4,4,5,3,4,4,5,4,5,5,6,
   1,2,2,3,2,3,3,4,2,3,3,4,3,4,4,5,2,3,3,4,3,4,4,5,3,4,4,5,4,5,5,6,
   2,3,3,4,3,4,4,5,3,4,4,5,4,5,5,6,3,4,4,5,4,5,5,6,4,5,5,6,5,6,6,7,
   1,2,2,3,2,3,3,4,2,3,3,4,3,4,4,5,2,3,3,4,3,4,4,5,3,4,4,5,4,5,5,6,
   2,3,3,4,3,4,4,5,3,4,4,5,4,5,5,6,3,4,4,5,4,5,5,6,4,5,5,6,5,6,6,7,
   2,3,3,4,3,4,4,5,3,4,4,5,4,5,5,6,3,4,4,5,4,5,5,6,4,5,5,6,5,6,6,7,
   3,4,4,5,4,5,5,6,4,5,5,6,5,6,6,7,4,5,5,6,5,6,6,7,5,6,6,7,6,7,7,8 >>

\* GETBIT(s, i): s[i >> 3] & (1 << (i & 7))
GETBIT(s, i) == (s[i \div 8] \div Pow2(i % 8)) % 2 = 1

\* CLRBIT(s, i): s[i >> 3] &= unset_bit[i & 7]
CLRBIT(s, i) ==
   IF GETBIT(s, i) THEN [s EXCEPT ![i \div 8] = @ - Pow2(i % 8)] ELSE s

\* memset(p, 0xff, n)
AllOnes(n) == [b \in 0..(n - 1) |-> 255]

\* the SWAR fold of one 8-byte word: the number of set bits of bytes
\* 8w .. 8w+7 (the word itself exceeds TLC's integers)
WordBits(s, w) ==
   LET B(x) == popcnt_byte[s[8 * w + x] + 1]
   IN  B(0) + B(1) + B(2) + B(3) + B(4) + B(5) + B(6) + B(7)

RECURSIVE PopWords(_, _, _)
PopWords(s, i, asize) ==
   IF i >= asize THEN 0 ELSE WordBits(s, i) + PopWords(s, i + 1, asize)

RECURSIVE PopTail(_, _, _)
PopTail(s, i, size) ==
   IF i >= size THEN 0 ELSE popcnt_byte[s[i] + 1] + PopTail(s, i + 1, size)

popcount(s, size) ==
   IF size = 0 THEN 0
   ELSE IF size > 8
        THEN LET asize == (size + 7) \div 8 - 1
             IN  PopWords(s, 0, asize) + PopTail(s, asize * 8, size)
        ELSE PopTail(s, 0, size)

\* ------------------------------------------------------- wheel profiles
\* nPre: last pre-sieved wheel index; (c0, k0, t0): the worker's recurrence
\* state, the worker loop starts at i = nPre + 1.
\* a worker state that is not the recurrence's
FullProfileShifted ==
   [name |-> "full", nPre |-> 5, step_sz |-> 510510 * 12,
    c0 |-> 96, k0 |-> 1, t0 |-> 34]

FullProfile ==
   [name |-> "full", nPre |-> 5, step_sz |-> 510510 * 12,
    c0 |-> 96, k0 |-> 2, t0 |-> 34]

ScaledProfile ==
   [name |-> "scaled", nPre |-> 1, step_sz |-> 30 * StepMult,
    c0 |-> 8, k0 |-> 2, t0 |-> 10]

\* A wheel between the two: pre-sieve of 5, 7 and 11, step 2*3*5*7*11, the
\* worker's loop entered with the state the recurrence has after i = 3.
\* As under "full", the starts 7 and 13 lie below the largest pre-sieve
\* prime, and a second chunk is within reach of the sieve.
Wheel11Profile ==
   [name |-> "wheel11", nPre |-> 3, step_sz |-> 2310,
    c0 |-> 40, k0 |-> 2, t0 |-> 22]

\* The constants of the source for N >= 1e12: pre-sieve of i = 1..6 (5 to
\* 19), step_sz = 9699690, worker state (120, 1, 38).  Enumerated, as
\* "full", on ranges far shorter than one segment.
Full19Profile ==
   [name |-> "full19", nPre |-> 6, step_sz |-> 9699690,
    c0 |-> 120, k0 |-> 1, t0 |-> 38]

\* the profiles whose segment is that of the source
SourceWide(p) == p.name \in {"full", "full19"}

\* start_adj = (start > 5) ? start - (start % 6) - 6 + 1 : 1
F_adj(F) == IF F > 5 THEN F - (F % 6) - 6 + 1 ELSE 1

\* ------------------------------------------------ Luo's composite walk
\* a skip-ahead without its second test
SkipAheadOnce(j, ij, t, j_off) ==
   IF j < j_off
   THEN <<j + ((j_off - j) \div t) * t + ij, t - ij>>
   ELSE <<j, ij>>

\* skip numbers before j_off; returns <<j, ij>>
SkipAhead(j, ij, t, j_off) ==
   IF j < j_off
   THEN LET j1 == j + ((j_off - j) \div t) * t + ij
            ij1 == t - ij
        IN  IF j1 < j_off THEN <<j1 + ij1, t - ij1>> ELSE <<j1, ij1>>
   ELSE <<j, ij>>

\* Loops are run by halving: a loop of at most n passes is the first n/2
\* passes followed by the rest, which executes the same passes in the same
\* order as the source and keeps the evaluation shallow.

\* a walk that forgets to alternate the stride: j += ij only
WalkStepNoToggle(st, t, off) ==
   [s |-> CLRBIT(st.s, st.j - off), j |-> st.j + st.ij, ij |-> st.ij]

\* one pass of: while (j <= lim) { CLRBIT(s, j - off); j += ij, ij = t - ij; }
WalkStep(st, t, off) ==
   [s |-> CLRBIT(st.s, st.j - off), j |-> st.j + st.ij, ij |-> t - st.ij]

RECURSIVE WalkRun(_, _, _, _, _)
WalkRun(st, t, off, lim, n) ==
   IF st.j > lim \/ n = 0 THEN st
   ELSE IF n = 1 THEN WalkStep(st, t, off)
   ELSE WalkRun(WalkRun(st, t, off, lim, n \div 2), t, off, lim,
                n - n \div 2)

ClearWalk(s, j, ij, t, off, lim) ==
   IF j <= lim
   THEN WalkRun([s |-> s, j |-> j, ij |-> ij], t, off, lim, lim - j + 1).s
   ELSE s

\* k = 3 - k, c += 4 * k * i, j = c; ij = 2 * i * (3 - k) + 1, t += 4 * k;
\* on the loop state st = [s, i, c, k, t]; ij is returned with the new state
Recur(st) ==
   LET k1 == 3 - st.k
   IN  [c |-> st.c + 4 * k1 * st.i, k |-> k1, t |-> st.t + 4 * k1,
        ij |-> 2 * st.i * (3 - k1) + 1]

\* ------------------------------------------------------------ is_prime
q_of(n) == isqrt(n) \div 3

\* one pass of: for (i = 1; i <= q; i++) { recurrence;
\*    if (GETBIT(is_prime, i)) while (j <= q) { CLRBIT(is_prime, j); ... } }
SmallStep(st, q) ==
   LET r == Recur(st)
   IN  [s |-> IF GETBIT(st.s, st.i)
              THEN ClearWalk(st.s, r.c, r.ij, r.t, 0, q) ELSE st.s,
        i |-> st.i + 1, c |-> r.c, k |-> r.k, t |-> r.t]

RECURSIVE SmallLoop(_, _, _)
SmallLoop(st, q, n) ==
   IF st.i > q \/ n = 0 THEN st
   ELSE IF n = 1 THEN SmallStep(st, q)
   ELSE SmallLoop(SmallLoop(st, q, n \div 2), q, n - n \div 2)

SmallPrimes(N) ==
   LET q == q_of(N)
       mem_sz == (q + 2 + 7) \div 8
   IN  SmallLoop([s |-> CLRBIT(AllOnes(mem_sz), 0), i |-> 1, c |-> 0,
                  k |-> 1, t |-> 2], q, q).s

\* ------------------------------------------------------------ pre_sieve
sieve_sz_of(p) == p.step_sz \div 3

mem_sz_p_of(p) == (sieve_sz_of(p) + 2 + 7) \div 8

\* a buffer without the two bits past M
mem_sz_ofTight(start, stop) ==
   ((stop - start + (stop % 2)) \div 3 + 7) \div 8

\* M and mem_sz of the segment [start, stop]
M_of(start, stop) == (stop - start + (stop % 2)) \div 3

mem_sz_of(start, stop) == (M_of(start, stop) + 2 + 7) \div 8

\* The bytes of pre_sieve the model holds: all of them under "scaled"; under
\* "full" the prefix the (single, short) first segment copies.
TemplateBytes(p, Fadj, N) ==
   IF SourceWide(p)
   THEN Min(mem_sz_p_of(p), mem_sz_of(Fadj, Min(Fadj + p.step_sz - 1, N)))
   ELSE mem_sz_p_of(p)

\* one pass of: for (i = 1; i <= nPre; i++) { recurrence; skip-ahead;
\*    while ((c_off >> 3) < mem_sz) { CLRBIT(pre_sieve, c_off); ... } }
PreStep(st, j_off, len) ==
   LET r == Recur(st)
       sk == SkipAhead(r.c, r.ij, r.t, j_off)
   IN  [s |-> ClearWalk(st.s, sk[1], sk[2], r.t, j_off, j_off + len * 8 - 1),
        i |-> st.i + 1, c |-> r.c, k |-> r.k, t |-> r.t]

RECURSIVE PreLoop(_, _, _, _, _)
PreLoop(st, nPre, j_off, len, n) ==
   IF st.i > nPre \/ n = 0 THEN st
   ELSE IF n = 1 THEN PreStep(st, j_off, len)
   ELSE PreLoop(PreLoop(st, nPre, j_off, len, n \div 2), nPre, j_off, len,
                n - n \div 2)

\* pre_sieve[0] = (N < 1e12) ? 0xc0 : 0x80: bits 0..nPre clear
FirstByte(p) == 256 - 2 * Pow2(p.nPre)

\* clear bits greater than sieve_sz (those inside the held bytes)
RECURSIVE ClearFrom(_, _, _)
ClearFrom(s, i, nbits) ==
   IF i >= nbits THEN s ELSE ClearFrom(CLRBIT(s, i), i + 1, nbits)

\* a template whose bits past sieve_sz are left as the walks leave them
PreSieveTemplateNoTail(p, Fadj, N) ==
   LET len == TemplateBytes(p, Fadj, N)
       j_off == (Fadj - 1) \div 3
       s0 == CLRBIT(AllOnes(len), 0)
       s1 == PreLoop([s |-> s0, i |-> 1, c |-> 0, k |-> 1, t |-> 2],
                     p.nPre, j_off, len, p.nPre).s
   IN  IF Fadj = 1 THEN [s1 EXCEPT ![0] = FirstByte(p)] ELSE s1

\* a template built as if the range started at 1
PreSieveTemplateFromOne(p, Fadj, N) ==
   LET len == TemplateBytes(p, Fadj, N)
       j_off == 0
       s0 == CLRBIT(AllOnes(len), 0)
       s1 == PreLoop([s |-> s0, i |-> 1, c |-> 0, k |-> 1, t |-> 2],
                     p.nPre, j_off, len, p.nPre).s
       s2 == [s1 EXCEPT ![0] = FirstByte(p)]
   IN  ClearFrom(s2, sieve_sz_of(p) + 1, len * 8)

PreSieveTemplate(p, Fadj, N) ==
   LET len == TemplateBytes(p, Fadj, N)
       j_off == (Fadj - 1) \div 3
       s0 == CLRBIT(AllOnes(len), 0)
       s1 == PreLoop([s |-> s0, i |-> 1, c |-> 0, k |-> 1, t |-> 2],
                     p.nPre, j_off, len, p.nPre).s
       s2 == IF Fadj = 1 THEN [s1 EXCEPT ![0] = FirstByte(p)] ELSE s1
   IN  ClearFrom(s2, sieve_sz_of(p) + 1, len * 8)

\* ------------------------------------------------------- segment kernel
\* memcpy(sieve, pre_sieve, mem_sz); if (start == 1) sieve[0] = 0xfe;
TemplateCopy(pre, start, stop) ==
   LET s0 == [b \in 0..(mem_sz_of(start, stop) - 1) |-> pre[b]]
   IN  IF start = 1 THEN [s0 EXCEPT ![0] = 254] ELSE s0

\* a start clear that drops the test of the second candidate
StartClearBoth(s, start, Fadj, F) ==
   LET n_off == start - 1
   IN  IF start = Fadj /\ n_off + Or1(3 * 1 + 1) < F
       THEN CLRBIT(CLRBIT(s, 1), 2)
       ELSE s

\* clear composites less than FROM_val
StartClear(s, start, Fadj, F) ==
   LET n_off == start - 1
   IN  IF start = Fadj /\ n_off + Or1(3 * 1 + 1) < F
       THEN LET s1 == CLRBIT(s, 1)
            IN  IF n_off + Or1(3 * 2 + 1) < F THEN CLRBIT(s1, 2) ELSE s1
       ELSE s

\* an end clear that leaves the candidates M and M + 1 alone
EndClearKeepLast(s, start, stop, N) ==
   IF stop = N
   THEN ClearFrom(s, M_of(start, stop) + 2, mem_sz_of(start, stop) * 8)
   ELSE s

\* an end clear without the loop over the bits above M + 1
EndClearNoTail(s, start, stop, N) ==
   LET n_off == start - 1
       M == M_of(start, stop)
   IN  IF stop = N
       THEN IF n_off + Or1(3 * (M + 1) + 1) > N
            THEN LET s2 == CLRBIT(s, M + 1)
                 IN  IF n_off + Or1(3 * M + 1) > N
                     THEN CLRBIT(s2, M) ELSE s2
            ELSE s
       ELSE s

\* clear composites greater than N_val
EndClear(s, start, stop, N) ==
   LET n_off == start - 1
       M == M_of(start, stop)
       mem_sz == mem_sz_of(start, stop)
   IN  IF stop = N
       THEN LET s1 == ClearFrom(s, M + 2, mem_sz * 8)
            IN  IF n_off + Or1(3 * (M + 1) + 1) > N
                THEN LET s2 == CLRBIT(s1, M + 1)
                     IN  IF n_off + Or1(3 * M + 1) > N
                         THEN CLRBIT(s2, M) ELSE s2
                ELSE s1
       ELSE s

\* one pass of: for (i = nPre + 1; i <= q; i++) { recurrence;
\*    if (GETBIT(is_prime, i))
\*    { skip-ahead; while (j <= M2) { CLRBIT(sieve, j - j_off); ... } } }
SieveStep(st, isp, j_off, M2) ==
   LET r == Recur(st)
       sk == SkipAhead(r.c, r.ij, r.t, j_off)
   IN  [s |-> IF GETBIT(isp, st.i)
              THEN ClearWalk(st.s, sk[1], sk[2], r.t, j_off, M2) ELSE st.s,
        i |-> st.i + 1, c |-> r.c, k |-> r.k, t |-> r.t]

RECURSIVE SieveLoop(_, _, _, _, _, _)
SieveLoop(st, isp, q, j_off, M2, n) ==
   IF st.i > q \/ n = 0 THEN st
   ELSE IF n = 1 THEN SieveStep(st, isp, j_off, M2)
   ELSE SieveLoop(SieveLoop(st, isp, q, j_off, M2, n \div 2), isp, q, j_off,
                  M2, n - n \div 2)

\* a limit of the walks that lies beyond the segment
M2_ofBeyond(stop) == stop \div 3 + 64

\* M2 = stop / 3, the last index (counted from 0, not from j_off) a walk
\* may clear
M2_of(stop) == stop \div 3

\* the sieve of segment [start, stop] when the output step begins
Segment(p, isp, pre, F, Fadj, N, start, stop) ==
   LET s0 == TemplateCopy(pre, start, stop)
       s1 == StartClear(s0, start, Fadj, F)
       s2 == EndClear(s1, start, stop, N)
       q == q_of(stop)
   IN  SieveLoop([s |-> s2, i |-> p.nPre + 1, c |-> p.c0, k |-> p.k0,
                  t |-> p.t0], isp, q, (start - 1) \div 3, M2_of(stop), q).s

\* the integers the output loop finds, in loop order:
\* for (i = 1; i <= M; i += 2) { bit i -> n_off + 3i + 2;
\*                               bit i+1 -> n_off + 3(i+1) + 1 }
PairValues(s, i, n_off) ==
   (IF GETBIT(s, i) THEN <<n_off + (3 * i + 2)>> ELSE << >>)
   \o (IF GETBIT(s, i + 1) THEN <<n_off + (3 * (i + 1) + 1)>> ELSE << >>)

\* passes x = lo..hi of the loop, pass x having i = 2x - 1
RECURSIVE PassValues(_, _, _, _)
PassValues(s, lo, hi, n_off) ==
   IF lo > hi THEN << >>
   ELSE IF lo = hi THEN PairValues(s, 2 * lo - 1, n_off)
   ELSE LET mid == (lo + hi) \div 2
        IN  PassValues(s, lo, mid, n_off) \o PassValues(s, mid + 1, hi, n_off)

\* the last index that loop reads: i + 1 of its last pass
LastInspected(M) == IF M % 2 = 1 THEN M + 1 ELSE M

BitValues(s, i, M, n_off) == PassValues(s, (i + 1) \div 2, (M + 1) \div 2, n_off)

\* 2 and 3 without the test of the segment's start
HeadValuesAnyStart(F, start, stop) ==
   (IF F <= 2 /\ stop >= 2 THEN <<2>> ELSE << >>)
   \o (IF F <= 3 /\ stop >= 3 THEN <<3>> ELSE << >>)

\* 2 and 3, tested in every segment, found in the one that holds them
HeadValues(F, start, stop) ==
   (IF F <= 2 /\ start <= 2 /\ stop >= 2 THEN <<2>> ELSE << >>)
   \o (IF F <= 3 /\ start <= 3 /\ stop >= 3 THEN <<3>> ELSE << >>)

SegmentValues(s, F, start, stop) ==
   HeadValues(F, start, stop) \o BitValues(s, 1, M_of(start, stop), start - 1)

\* a count that stops one byte short of mem_sz
CountSegmentShort(s, F, start, stop) ==
   (IF F <= 2 /\ start <= 2 /\ stop >= 2 THEN 1 ELSE 0)
   + (IF F <= 3 /\ start <= 3 /\ stop >= 3 THEN 1 ELSE 0)
   + popcount(s, mem_sz_of(start, stop) - 1)

\* MODE_COUNT: n_ret++ for 2 and for 3, n_ret += popcount(sieve, mem_sz)
CountSegment(s, F, start, stop) ==
   (IF F <= 2 /\ start <= 2 /\ stop >= 2 THEN 1 ELSE 0)
   + (IF F <= 3 /\ start <= 3 /\ stop >= 3 THEN 1 ELSE 0)
   + popcount(s, mem_sz_of(start, stop))

\* a sum loop that takes bit i + 1 for 3 * i + 1
SumPairSameIndex(s, i, n_off) ==
   (IF GETBIT(s, i) THEN n_off + (3 * i + 2) ELSE 0)
   + (IF GETBIT(s, i + 1) THEN n_off + (3 * i + 1) ELSE 0)

\* one pass of the MODE_SUM loop: if (GETBIT(sieve, i)) n_ret += n_off +
\* (3 * i + 2); if (GETBIT(sieve, i + 1)) n_ret += n_off + (3 * (i + 1) + 1);
SumPair(s, i, n_off) ==
   (IF GETBIT(s, i) THEN n_off + (3 * i + 2) ELSE 0)
   + (IF GETBIT(s, i + 1) THEN n_off + (3 * (i + 1) + 1) ELSE 0)

\* passes x = lo..hi of the loop, pass x having i = 2x - 1
RECURSIVE SumPasses(_, _, _, _)
SumPasses(s, lo, hi, n_off) ==
   IF lo > hi THEN 0
   ELSE IF lo = hi THEN SumPair(s, 2 * lo - 1, n_off)
   ELSE LET mid == (lo + hi) \div 2
        IN  SumPasses(s, lo, mid, n_off) + SumPasses(s, mid + 1, hi, n_off)

\* MODE_SUM: n_ret += 2, n_ret += 3, then the loop for (i = 1; i <= M; i += 2)
SumSegment(s, F, start, stop) ==
   (IF F <= 2 /\ start <= 2 /\ stop >= 2 THEN 2 ELSE 0)
   + (IF F <= 3 /\ start <= 3 /\ stop >= 3 THEN 3 ELSE 0)
   + SumPasses(s, 1, (M_of(start, stop) + 1) \div 2, start - 1)

\* ----------------------------------------------- sprintull.h, output.h
\* do { t = value / 10; *s++ = '0' + value - 10 * t; } while ((value = t));
RECURSIVE DigitsRev(_)
DigitsRev(value) ==
   LET t == value \div 10
   IN  <<48 + value - 10 * t>> \o (IF t # 0 THEN DigitsRev(t) ELSE << >>)

\* reverse the string in place
Reverse(sq) == [x \in 1..Len(sq) |-> sq[Len(sq) + 1 - x]]

sprintull(value) == Reverse(DigitsRev(value))

\* one outcome of write(fd, buf, len): the number of bytes that reached the
\* file; fewer than len is the failure flush_output reports
flush_output(file, buf, wrote) ==
   IF Len(buf) > 0
   THEN IF wrote # Len(buf)
        THEN [file |-> file \o SubSeq(buf, 1, wrote), buf |-> << >>, err |-> -1]
        ELSE [file |-> file \o buf, buf |-> << >>, err |-> 0]
   ELSE [file |-> file, buf |-> buf, err |-> 0]

write_output(file, buf, prime, wrote) ==
   LET b1 == buf \o sprintull(prime) \o <<LF>>
   IN  IF Len(b1) > FLUSH_LIMIT
       THEN flush_output(file, b1, wrote)
       ELSE [file |-> file, buf |-> b1, err |-> 0]

\* the PRINT branch of practicalsieve (algorithm3.c): 2 and 3 are written
\* unchecked, the bit loop breaks at the first error, then the final flush.
\* vals: the values in loop order.  A failing write of n bytes leaves
\* Min(part, n - 1) of them in the file.
Wrote(n, fail, part) == IF fail THEN Min(part, n - 1) ELSE n

WriteOne(st, prime, fail, part) ==
   LET n == Len(st.buf) + Len(sprintull(prime)) + 1
   IN  write_output(st.file, st.buf, prime, Wrote(n, fail, part))

\* values lo..hi of vals, stopping at the first error
RECURSIVE WriteRange(_, _, _, _, _, _)
WriteRange(st, vals, lo, hi, fail, part) ==
   IF lo > hi \/ st.err # 0 THEN st
   ELSE IF lo = hi THEN WriteOne(st, vals[lo], fail, part)
   ELSE LET mid == (lo + hi) \div 2
        IN  WriteRange(WriteRange(st, vals, lo, mid, fail, part), vals,
                       mid + 1, hi, fail, part)

WriteLoop(st, vals, x, fail, part) ==
   WriteRange(st, vals, x, Len(vals), fail, part)

\* head: 2 and 3 where they belong to the segment (their write_output
\* result is dropped); vals: the values of the set bits
PrintSegment(head, vals, fail, part) ==
   LET h  == WriteLoop([file |-> << >>, buf |-> << >>, err |-> 0],
                       head, 1, FALSE, 0)
       st == WriteLoop(h, vals, 1, fail, part)
   IN  IF st.err = 0
       THEN flush_output(st.file, st.buf, Wrote(Len(st.buf), fail, part))
       ELSE st

\* printint(value, 0) of primes1.c on the static buffer: st = [out, buf, x],
\* x counting the values printed
printint(st, value) ==
   LET full == Len(st.buf) > 0 /\ Len(st.buf) > OMP_FLUSH_LIMIT
       o1 == IF full THEN st.out \o st.buf ELSE st.out
       b1 == IF full THEN << >> ELSE st.buf
   IN  [out |-> o1, buf |-> b1 \o Reverse(DigitsRev(value)) \o <<LF>>,
        x |-> st.x + 1]

\* printint(0, 1): flush buffer only
printflush(st) ==
   IF Len(st.buf) > 0 THEN [st EXCEPT !.out = st.out \o st.buf, !.buf = << >>]
   ELSE st

\* printint for the values from vals[st.x] on, at most n of them
RECURSIVE PrintRun(_, _, _)
PrintRun(st, vals, n) ==
   IF st.x > Len(vals) \/ n = 0 THEN st
   ELSE IF n = 1 THEN printint(st, vals[st.x])
   ELSE PrintRun(PrintRun(st, vals, n \div 2), vals, n - n \div 2)

\* output_primes: printint for each value in loop order
output_primes(out, buf, vals) ==
   PrintRun([out |-> out, buf |-> buf, x |-> 1], vals, Len(vals))

\* no ordering: any chunk may enter
OrderedTurnAny(c, cursor) == TRUE

\* a turn that waits for a chunk beyond the cursor
OrderedTurnAhead(c, cursor) == c = cursor + 1

\* the ordered construct / MCE::relay: chunk c enters when the cursor is at c
OrderedTurn(c, cursor) == c = cursor

\* chunks are handed out until MCE->abort()
MayIssue(ab) == ~ab

\* bytes a failing write may leave in the file
FailParts == {0, 3}

\* primes1.c main: return 0 once practicalsieve has returned
OmpExitCode == 0

\* =================================================================== state
VARIABLES
   impl,        \* "omp" (primes1.c) or "mce" (algorithm3.pl)
   prof,        \* wheel profile of the run
   run_mode,    \* MODE_COUNT, MODE_PRINT, MODE_SUM
   FROM_val,    \* F
   N_val,       \* N
   max_workers, \* T
   phase,       \* "start", "run", "exit"
   is_prime,    \* small-primes table
   pre_sieve,   \* pre-sieve template
   wk,          \* per worker: pc, chunk_id, start, stop, sieve, ret, next, count
   n_seq,       \* i_iter: last chunk start handed out (0: none yet)
   issued,      \* number of chunks handed out
   relay,       \* chunk id whose ordered section / relay turn is next
   files,       \* mce PRINT: chunk id -> bytes of tmp_dir/chunk_id
   pbuf,        \* omp PRINT: the static buffer of printint
   stdout,      \* bytes written to standard output
   count,       \* omp: the reduced count
   N_agg,       \* mce: Sandbox::N_agg
   aborted,     \* MCE->abort() was called
   faults,      \* write failures the file system may still produce
   exit_status  \* -1 while running

vars == <<impl, prof, run_mode, FROM_val, N_val, max_workers, phase, is_prime,
          pre_sieve, wk, n_seq, issued, relay, files, pbuf, stdout, count,
          N_agg, aborted, faults, exit_status>>

FROM_adj == F_adj(FROM_val)

step_sz == prof.step_sz

Workers == 1..max_workers

IdleWorker ==
   [pc |-> "idle", chunk_id |-> 0, start |-> 0, stop |-> 0, sieve |-> << >>,
    ret |-> 0, next |-> 0, count |-> 0]

\* the ranges enumerated: every range that starts at or below MaxFrom and
\* every range of at most MaxSpan + 1 integers
MaxFrom(p) == IF p.name = "full" THEN MaxFFull ELSE MaxFScaled

MaxN(p) == IF p.name = "full" THEN MaxNFull ELSE MaxNScaled

Inputs(p) ==
   {<<f, n>> \in (1..MaxN(p)) \X (1..MaxN(p)) :
       f <= n /\ (f <= MaxFrom(p) \/ n - f <= MaxSpan)}

\* one segment needs one worker: the "full" runs use T = 1
WorkerCounts(p) == IF SourceWide(p) THEN {1} ELSE 1..MaxWorkers

\* write failures are injected into the runs that start at 1
FaultCounts(i, m, f) ==
   IF i = "mce" /\ m = MODE_PRINT /\ f = 1 THEN 0..MaxFaults ELSE {0}

Modes(i) == IF i = "omp" THEN {MODE_COUNT, MODE_PRINT}
                         ELSE {MODE_COUNT, MODE_PRINT, MODE_SUM}

Init ==
   /\ impl \in {"omp", "mce"}
   /\ prof \in {FullProfile, ScaledProfile}
   /\ run_mode \in Modes(impl)
   /\ \E fn \in Inputs(prof) : FROM_val = fn[1] /\ N_val = fn[2]
   /\ max_workers \in WorkerCounts(prof)
   /\ (impl = "mce" /\ FROM_val = N_val => max_workers = 1)
   /\ phase = "start"
   /\ is_prime = << >>
   /\ pre_sieve = << >>
   /\ wk = [w \in 1..MaxWorkers |-> IdleWorker]
   /\ n_seq = 0
   /\ issued = 0
   /\ relay = 0
   /\ files = << >>
   /\ pbuf = << >>
   /\ stdout = << >>
   /\ count = 0
   /\ N_agg = 0
   /\ aborted = FALSE
   /\ faults \in FaultCounts(impl, run_mode, FROM_val)
   /\ exit_status = -1

\* ------------------------------------------------------- argument checks
\* static const uint64_t LIMIT_MAX = 18446744073709551609UL (2^64-1-6), at
\* the model's word size
LIMIT_MAX == WordLimit - 1 - 6

\* a --sum check that is not made
check_numbersNoSum(max, F, N, sum_flag) ==
   /\ F > 0 /\ N > 0 /\ N >= F
   /\ ~(N > max)

\* Sandbox::check_numbers returns (TRUE) or dies (FALSE)
check_numbers(max, F, N, sum_flag) ==
   /\ F > 0 /\ N > 0 /\ N >= F
   /\ ~(sum_flag /\ N > SumLimit)
   /\ ~(N > max)

\* (uint64_t) strtold(arg, NULL): the conversion of a negative value is
\* undefined; builds give 0 (saturating) or the value modulo 2^64
CastU64(x) == IF x < 0 THEN {0, WordLimit + x} ELSE {x}

\* primes1.c main: the <<start, stop>> that practicalsieve may be called
\* with; the limit is tested on the long double, the range on the uint64_t
main_accepts(F, N) ==
   IF F > LIMIT_MAX \/ N > LIMIT_MAX THEN {}
   ELSE {<<start, stop>> \in CastU64(F) \X CastU64(N) :
            ~(start < 1 \/ stop < start)}

\* primes1.c main: some outcome of the conversions ends in return 1
main_rejects(F, N) ==
   \/ F > LIMIT_MAX \/ N > LIMIT_MAX
   \/ \E start \in CastU64(F) : \E stop \in CastU64(N) :
         start < 1 \/ stop < start

\* primes1.c main: return 1 on an argument it refuses
OmpRejectCode == 1

\* Perl's die ends the program with errno when it is set and with 255
\* otherwise
DieStatuses == {2, 255}

ArgsOk ==
   IF impl = "mce"
   THEN check_numbers(LIMIT_MAX, FROM_val, N_val, run_mode = MODE_SUM)
   ELSE <<FROM_val, N_val>> \in main_accepts(FROM_val, N_val)

\* ------------------------------------------------------------------ setup
\* primes1.c practicalsieve up to the parallel loop;
\* algorithm3.pl: practicalsieve_precalc($F_adj, $F, $N, $step_size)
Precalc ==
   /\ phase = "start"
   /\ ArgsOk
   /\ is_prime' = SmallPrimes(N_val)
   /\ pre_sieve' = PreSieveTemplate(prof, FROM_adj, N_val)
   /\ count' = IF impl = "omp"
               THEN (IF FROM_val <= 2 /\ N_val >= 2 THEN 1 ELSE 0)
                    + (IF FROM_val <= 3 /\ N_val >= 3 THEN 1 ELSE 0)
               ELSE 0
   /\ wk' = [w \in 1..MaxWorkers |->
               IF impl = "omp" THEN [IdleWorker EXCEPT !.next = w - 1]
                               ELSE IdleWorker]
   /\ relay' = IF impl = "omp" THEN 0 ELSE 1
   /\ phase' = "run"
   /\ UNCHANGED <<impl, prof, run_mode, FROM_val, N_val, max_workers, n_seq,
                  issued, files, pbuf, stdout, N_agg, aborted, faults,
                  exit_status>>

\* ------------------------------------------------------- primes1.c (omp)
\* unsigned 64-bit arithmetic, at the model's word size
U64(x) == x % WordLimit

\* a chunk count rounded up
num_chunksCeil == (U64(N_val - FROM_adj + step_sz) + step_sz - 1) \div step_sz

\* int64_t num_chunks = (stop - start_adj + step_sz) / step_sz
num_chunks == U64(N_val - FROM_adj + step_sz) \div step_sz

\* low and high of chunk chunk_id (0-based)
OmpLow(chunk_id) == U64(FROM_adj + step_sz * chunk_id)

OmpHigh(chunk_id) ==
   LET low == OmpLow(chunk_id)
       high == U64(low + step_sz - 1)
   IN  IF high > N_val \/ high < low THEN N_val ELSE high

\* an iteration of a schedule that hands a thread its chunks from the far end
OmpIterDescending(w) ==
   /\ impl = "omp" /\ phase = "run"
   /\ w \in Workers
   /\ wk[w].pc = "idle"
   /\ wk[w].next < num_chunks
   /\ LET chunk_id == num_chunks - 1 - wk[w].next
          low == OmpLow(chunk_id)
          high == OmpHigh(chunk_id)
      IN  wk' = [wk EXCEPT ![w] =
                   [@ EXCEPT !.pc = "sieved", !.chunk_id = chunk_id,
                             !.start = low, !.stop = high,
                             !.sieve = Segment(prof, is_prime, pre_sieve,
                                          FROM_val, FROM_adj, N_val, low,
                                          high)]]
   /\ UNCHANGED <<impl, prof, run_mode, FROM_val, N_val, max_workers, phase,
                  is_prime, pre_sieve, n_seq, issued, relay, files, pbuf,
                  stdout, count, N_agg, aborted, faults, exit_status>>

\* One iteration of the parallel loop up to the output step.  Thread w - 1
\* runs chunks w - 1, w - 1 + T, ... (schedule(static, 1)).
OmpIter(w) ==
   /\ impl = "omp" /\ phase = "run"
   /\ w \in Workers
   /\ wk[w].pc = "idle"
   /\ wk[w].next < num_chunks
   /\ LET chunk_id == wk[w].next
          low == OmpLow(chunk_id)
          high == OmpHigh(chunk_id)
      IN  wk' = [wk EXCEPT ![w] =
                   [@ EXCEPT !.pc = "sieved", !.chunk_id = chunk_id,
                             !.start = low, !.stop = high,
                             !.sieve = Segment(prof, is_prime, pre_sieve,
                                          FROM_val, FROM_adj, N_val, low,
                                          high)]]
   /\ UNCHANGED <<impl, prof, run_mode, FROM_val, N_val, max_workers, phase,
                  is_prime, pre_sieve, n_seq, issued, relay, files, pbuf,
                  stdout, count, N_agg, aborted, faults, exit_status>>

\* The output step of an iteration, then free(sieve).
\* -p: #pragma omp ordered output_primes(sieve, start, low, high, M, n_off),
\*     entered in chunk order.
\* else: count += popcount(sieve, mem_sz) on the thread's private copy of
\*     the reduction variable.
OmpOutput(w) ==
   /\ impl = "omp" /\ phase = "run"
   /\ w \in Workers
   /\ wk[w].pc = "sieved"
   /\ IF run_mode = MODE_PRINT
      THEN /\ OrderedTurn(wk[w].chunk_id, relay)
           /\ LET r == output_primes(stdout, pbuf,
                          SegmentValues(wk[w].sieve, FROM_val, wk[w].start,
                                        wk[w].stop))
              IN  /\ stdout' = r.out
                  /\ pbuf' = r.buf
           /\ relay' = relay + 1
           /\ wk' = [wk EXCEPT ![w] = [IdleWorker EXCEPT
                                   !.count = wk[w].count,
                                   !.next = wk[w].next + max_workers]]
      ELSE /\ wk' = [wk EXCEPT ![w] = [IdleWorker EXCEPT
                                   !.count = wk[w].count
                                      + popcount(wk[w].sieve,
                                           mem_sz_of(wk[w].start, wk[w].stop)),
                                   !.next = wk[w].next + max_workers]]
           /\ UNCHANGED <<stdout, pbuf, relay>>
   /\ UNCHANGED <<impl, prof, run_mode, FROM_val, N_val, max_workers, phase,
                  is_prime, pre_sieve, n_seq, issued, files, count, N_agg,
                  aborted, faults, exit_status>>

\* The output step at the grain of the ordered construct.
\* without -p: count += popcount(sieve, mem_sz); free(sieve)
OmpCount(w) == run_mode # MODE_PRINT /\ OmpOutput(w)

\* #pragma omp ordered, entry: the thread waits until the ordered regions
\* of all earlier iterations have completed
OmpEnter(w) ==
   /\ impl = "omp" /\ phase = "run" /\ run_mode = MODE_PRINT
   /\ w \in Workers
   /\ wk[w].pc = "sieved"
   /\ OrderedTurn(wk[w].chunk_id, relay)
   /\ wk' = [wk EXCEPT ![w] = [@ EXCEPT !.pc = "emitting"]]
   /\ UNCHANGED <<impl, prof, run_mode, FROM_val, N_val, max_workers, phase,
                  is_prime, pre_sieve, n_seq, issued, relay, files, pbuf,
                  stdout, count, N_agg, aborted, faults, exit_status>>

\* the ordered region, output_primes(sieve, start, low, high, M, n_off), and
\* its end; then free(sieve) and the thread's next iteration
OmpEmit(w) ==
   /\ impl = "omp" /\ phase = "run" /\ run_mode = MODE_PRINT
   /\ w \in Workers
   /\ wk[w].pc = "emitting"
   /\ LET r == output_primes(stdout, pbuf,
                  SegmentValues(wk[w].sieve, FROM_val, wk[w].start,
                                wk[w].stop))
      IN  /\ stdout' = r.out
          /\ pbuf' = r.buf
   /\ relay' = relay + 1
   /\ wk' = [wk EXCEPT ![w] = [IdleWorker EXCEPT
                           !.count = wk[w].count,
                           !.next = wk[w].next + max_workers]]
   /\ UNCHANGED <<impl, prof, run_mode, FROM_val, N_val, max_workers, phase,
                  is_prime, pre_sieve, n_seq, issued, files, count, N_agg,
                  aborted, faults, exit_status>>

\* a reduction that keeps the first thread's private copy only
SumCountsFirst(f, w) == f[1].count

RECURSIVE SumCounts(_, _)
SumCounts(f, w) == IF w = 0 THEN 0 ELSE f[w].count + SumCounts(f, w - 1)

\* end of the parallel loop: reduction(+:count), printint(0, 1) with -p,
\* free of the tables; main returns 0
OmpFinish ==
   /\ impl = "omp" /\ phase = "run"
   /\ \A w \in Workers : wk[w].pc = "idle" /\ wk[w].next >= num_chunks
   /\ count' = count + SumCounts(wk, max_workers)
   /\ LET r == printflush([out |-> stdout, buf |-> pbuf, x |-> 0])
      IN  IF run_mode = MODE_PRINT
          THEN stdout' = r.out /\ pbuf' = r.buf
          ELSE UNCHANGED <<stdout, pbuf>>
   /\ is_prime' = << >>
   /\ pre_sieve' = << >>
   /\ exit_status' = OmpExitCode
   /\ phase' = "exit"
   /\ UNCHANGED <<impl, prof, run_mode, FROM_val, N_val, max_workers, wk,
                  n_seq, issued, relay, files, N_agg, aborted, faults>>

\* -------------------------------------------- algorithm3.pl + Sandbox.pm
\* my $max_number = 18446744073709551609 (2^64-1-6), at the model's word size
max_number == WordLimit - 1 - 6

\* Sandbox::i_iter: is there a next chunk start, and which
IterHasNext == n_seq = 0 \/ ~(n_seq + step_sz > N_val)

IterNext == IF n_seq = 0 THEN FROM_adj ELSE n_seq + step_sz

\* a stop that reaches into the next chunk
MceStopLong(start) ==
   IF max_number - start <= step_sz THEN N_val
   ELSE Min(start + step_sz + 5, N_val)

\* my $stop = ($max_number - $start <= $step_size)
\*    ? $N : Sandbox::min($start + $step_size - 1, $N);
MceStop(start) ==
   IF max_number - start <= step_sz THEN N_val
   ELSE Min(start + step_sz - 1, N_val)

\* -s $file
NonEmpty(c) == c \in DOMAIN files /\ Len(files[c]) > 0

\* a free worker receives the next chunk of the input iterator (chunk ids
\* count from 1); none is handed out after MCE->abort()
GetChunk(w) ==
   /\ impl = "mce" /\ phase = "run"
   /\ w \in Workers
   /\ wk[w].pc = "idle"
   /\ MayIssue(aborted)
   /\ IterHasNext
   /\ n_seq' = IterNext
   /\ issued' = issued + 1
   /\ wk' = [wk EXCEPT ![w] = [@ EXCEPT !.pc = "have",
                                        !.chunk_id = issued + 1,
                                        !.start = IterNext]]
   /\ UNCHANGED <<impl, prof, run_mode, FROM_val, N_val, max_workers, phase,
                  is_prime, pre_sieve, relay, files, pbuf, stdout, count,
                  N_agg, aborted, faults, exit_status>>

\* user_func up to the relay: open the chunk's file (PRINT), compute $stop,
\* call practicalsieve($start, $stop, $run_mode, $output_fd), close the file.
\* fail/part: whether the write of this call fails and how many bytes it
\* leaves behind.
UserFunc(w, fail, part) ==
   /\ impl = "mce" /\ phase = "run"
   /\ w \in Workers
   /\ wk[w].pc = "have"
   /\ IF fail THEN run_mode = MODE_PRINT /\ faults > 0 ELSE part = 0
   /\ LET start == wk[w].start
          stop == MceStop(start)
          sieve == Segment(prof, is_prime, pre_sieve, FROM_val, FROM_adj,
                           N_val, start, stop)
          head == HeadValues(FROM_val, start, stop)
          vals == BitValues(sieve, 1, M_of(start, stop), start - 1)
          pr == PrintSegment(head, vals, fail, part)
          n_ret == CASE run_mode = MODE_COUNT ->
                           CountSegment(sieve, FROM_val, start, stop)
                     [] run_mode = MODE_SUM ->
                           SumSegment(sieve, FROM_val, start, stop)
                     [] OTHER -> pr.err
      IN  /\ wk' = [wk EXCEPT ![w] = [@ EXCEPT !.pc = "sieved", !.stop = stop,
                                               !.sieve = sieve, !.ret = n_ret]]
          /\ files' = IF run_mode = MODE_PRINT
                      THEN (wk[w].chunk_id :> pr.file) @@ files
                      ELSE files
          /\ faults' = IF fail /\ pr.err # 0 THEN faults - 1 ELSE faults
          /\ fail => pr.err # 0
   /\ UNCHANGED <<impl, prof, run_mode, FROM_val, N_val, max_workers, phase,
                  is_prime, pre_sieve, n_seq, issued, relay, pbuf, stdout,
                  count, N_agg, aborted, exit_status>>

\* MCE::relay { Sandbox::display($chunk_id, "$tmp_dir/$chunk_id") }:
\* in chunk order, copy the chunk's file to STDOUT if it is not empty
Relay(w) ==
   /\ impl = "mce" /\ phase = "run" /\ run_mode = MODE_PRINT
   /\ w \in Workers
   /\ wk[w].pc = "sieved"
   /\ OrderedTurn(wk[w].chunk_id, relay)
   /\ stdout' = IF NonEmpty(wk[w].chunk_id)
                THEN stdout \o files[wk[w].chunk_id] ELSE stdout
   /\ relay' = relay + 1
   /\ wk' = [wk EXCEPT ![w] = [@ EXCEPT !.pc = "relayed"]]
   /\ UNCHANGED <<impl, prof, run_mode, FROM_val, N_val, max_workers, phase,
                  is_prime, pre_sieve, n_seq, issued, files, pbuf, count,
                  N_agg, aborted, faults, exit_status>>

\* MCE->gather(...) runs Sandbox::o_iter in the manager; in PRINT mode
\* MCE->abort() follows if practicalsieve returned an error
Gather(w) ==
   /\ impl = "mce" /\ phase = "run"
   /\ w \in Workers
   /\ wk[w].pc = (IF run_mode = MODE_PRINT THEN "relayed" ELSE "sieved")
   /\ IF run_mode # MODE_PRINT
      THEN /\ N_agg' = N_agg + wk[w].ret
           /\ UNCHANGED <<files, aborted>>
      ELSE /\ N_agg' = IF NonEmpty(wk[w].chunk_id) THEN 1 ELSE N_agg
           /\ files' = [c \in DOMAIN files \ {wk[w].chunk_id} |-> files[c]]
           /\ aborted' = (aborted \/ wk[w].ret < 0)
   /\ wk' = [wk EXCEPT ![w] = IdleWorker]
   /\ UNCHANGED <<impl, prof, run_mode, FROM_val, N_val, max_workers, phase,
                  is_prime, pre_sieve, n_seq, issued, relay, pbuf, stdout,
                  count, faults, exit_status>>

\* an end that tests $N_agg >= 0
EndStatusNonNeg(agg) == IF agg >= 0 THEN 0 ELSE 1

\* Sandbox::end: return ($N_agg > 0) ? 0 : 1
EndStatus(agg) == IF agg > 0 THEN 0 ELSE 1

\* $mce->run() returns when the input is exhausted or aborted and every
\* worker is done; practicalsieve_memfree(); exit(Sandbox::end(...))
MceEnd ==
   /\ impl = "mce" /\ phase = "run"
   /\ \A w \in Workers : wk[w].pc = "idle"
   /\ aborted \/ ~IterHasNext
   /\ is_prime' = << >>
   /\ pre_sieve' = << >>
   /\ exit_status' = EndStatus(N_agg)
   /\ phase' = "exit"
   /\ UNCHANGED <<impl, prof, run_mode, FROM_val, N_val, max_workers, wk,
                  n_seq, issued, relay, files, pbuf, stdout, count, N_agg,
                  aborted, faults>>

\* ------------------------------------------------------- chunk bounds
\* The bounds of the chunks alone, as the drivers compute them, one chunk
\* after the other: wk[1] holds the chunk just computed, wk[2] the one
\* before it, issued counts them.
\* primes1.c: chunk_id < num_chunks; low = start_adj + step_sz * chunk_id;
\* high = low + step_sz - 1; if (high > stop || high < low) high = stop
OmpBounds ==
   /\ impl = "omp" /\ phase = "chunks"
   /\ issued < num_chunks
   /\ wk' = [wk EXCEPT ![1] = [@ EXCEPT !.pc = "have", !.chunk_id = issued,
                                         !.start = OmpLow(issued),
                                         !.stop = OmpHigh(issued)],
                       ![2] = wk[1]]
   /\ issued' = issued + 1
   /\ UNCHANGED <<impl, prof, run_mode, FROM_val, N_val, max_workers, phase,
                  is_prime, pre_sieve, n_seq, relay, files, pbuf, stdout,
                  count, N_agg, aborted, faults, exit_status>>

\* algorithm3.pl: $start from Sandbox::i_iter, $stop in user_func
MceBounds ==
   /\ impl = "mce" /\ phase = "chunks"
   /\ IterHasNext
   /\ n_seq' = IterNext
   /\ wk' = [wk EXCEPT ![1] = [@ EXCEPT !.pc = "have",
                                         !.chunk_id = issued + 1,
                                         !.start = IterNext,
                                         !.stop = MceStop(IterNext)],
                       ![2] = wk[1]]
   /\ issued' = issued + 1
   /\ UNCHANGED <<impl, prof, run_mode, FROM_val, N_val, max_workers, phase,
                  is_prime, pre_sieve, relay, files, pbuf, stdout, count,
                  N_agg, aborted, faults, exit_status>>

\* the loop over the chunks has ended
BoundsDone ==
   /\ phase = "chunks"
   /\ IF impl = "omp" THEN ~(issued < num_chunks) ELSE ~IterHasNext
   /\ phase' = "chunked"
   /\ UNCHANGED <<impl, prof, run_mode, FROM_val, N_val, max_workers,
                  is_prime, pre_sieve, wk, n_seq, issued, relay, files, pbuf,
                  stdout, count, N_agg, aborted, faults, exit_status>>

\* ------------------------------------------------------- one loop alone
\* The passes of a sieve loop, step by step, on an array of KernelBytes
\* bytes whose bit 0 stands for the integer start: wk[1] holds the locals
\* i, c, k, t, j, ij of the thread and the array, n counts the steps of the
\* walk in hand.  The walk of every index is taken, as the loops take it
\* for an index whose is_prime bit is set.
KernelJoff == (wk[1].start - 1) \div 3

\* the last index inside the array: (c_off >> 3) < mem_sz
KernelLim == KernelJoff + 8 * KernelBytes - 1

\* k = 3 - k, c += 4 * k * i, j = c; ij = 2 * i * (3 - k) + 1, t += 4 * k
KernelRecur ==
   /\ phase = "kernel" /\ wk[1].pc = "recur"
   /\ wk[1].i <= MaxKernelI
   /\ LET r == Recur(wk[1])
      IN  wk' = [wk EXCEPT ![1] = [@ EXCEPT !.pc = "skip", !.c = r.c,
                                            !.k = r.k, !.t = r.t, !.j = r.c,
                                            !.ij = r.ij, !.n = 0]]
   /\ UNCHANGED <<impl, prof, run_mode, FROM_val, N_val, max_workers, phase,
                  is_prime, pre_sieve, n_seq, issued, relay, files, pbuf,
                  stdout, count, N_agg, aborted, faults, exit_status>>

\* if (j < j_off) { j += (j_off - j) / t * t + ij; ij = t - ij;
\*                  if (j < j_off) j += ij, ij = t - ij; }
KernelSkip ==
   /\ phase = "kernel" /\ wk[1].pc = "skip"
   /\ LET sk == SkipAhead(wk[1].j, wk[1].ij, wk[1].t, KernelJoff)
      IN  wk' = [wk EXCEPT ![1] = [@ EXCEPT !.pc = "walk", !.j = sk[1],
                                            !.ij = sk[2]]]
   /\ UNCHANGED <<impl, prof, run_mode, FROM_val, N_val, max_workers, phase,
                  is_prime, pre_sieve, n_seq, issued, relay, files, pbuf,
                  stdout, count, N_agg, aborted, faults, exit_status>>

\* one pass of the while loop: CLRBIT(sieve, j - j_off); j += ij, ij = t - ij
KernelWalk ==
   /\ phase = "kernel" /\ wk[1].pc = "walk"
   /\ wk[1].j <= KernelLim
   /\ LET st == WalkStep([s |-> wk[1].sieve, j |-> wk[1].j, ij |-> wk[1].ij],
                         wk[1].t, KernelJoff)
      IN  wk' = [wk EXCEPT ![1] = [@ EXCEPT !.sieve = st.s, !.j = st.j,
                                            !.ij = st.ij, !.n = @ + 1]]
   /\ UNCHANGED <<impl, prof, run_mode, FROM_val, N_val, max_workers, phase,
                  is_prime, pre_sieve, n_seq, issued, relay, files, pbuf,
                  stdout, count, N_agg, aborted, faults, exit_status>>

\* the while loop ends, i++
KernelPassEnd ==
   /\ phase = "kernel" /\ wk[1].pc = "walk"
   /\ wk[1].j > KernelLim
   /\ wk' = [wk EXCEPT ![1] = [@ EXCEPT !.pc = "recur", !.i = @ + 1]]
   /\ UNCHANGED <<impl, prof, run_mode, FROM_val, N_val, max_workers, phase,
                  is_prime, pre_sieve, n_seq, issued, relay, files, pbuf,
                  stdout, count, N_agg, aborted, faults, exit_status>>

\* ------------------------------------------------------ refused arguments
\* algorithm3.pl: Sandbox::check_numbers dies before the C functions are
\* loaded and before MCE is set up
MceReject ==
   /\ impl = "mce" /\ phase = "start"
   /\ ~check_numbers(LIMIT_MAX, FROM_val, N_val, run_mode = MODE_SUM)
   /\ exit_status' \in DieStatuses
   /\ phase' = "exit"
   /\ UNCHANGED <<impl, prof, run_mode, FROM_val, N_val, max_workers,
                  is_prime, pre_sieve, wk, n_seq, issued, relay, files, pbuf,
                  stdout, count, N_agg, aborted, faults>>

\* primes1.c main: "Start exceeds", "Limit exceeds", "Invalid integer or
\* range": return 1
OmpReject ==
   /\ impl = "omp" /\ phase = "start"
   /\ main_rejects(FROM_val, N_val)
   /\ exit_status' = OmpRejectCode
   /\ phase' = "exit"
   /\ UNCHANGED <<impl, prof, run_mode, FROM_val, N_val, max_workers,
                  is_prime, pre_sieve, wk, n_seq, issued, relay, files, pbuf,
                  stdout, count, N_agg, aborted, faults>>

\* primes1.c main: a negative argument converted modulo 2^64 passes the
\* range test and practicalsieve is entered with the converted values.
\* They lie beyond the magnitudes sieved here: the run is followed no
\* further than the call (phase "wrapped").
OmpWrapped ==
   /\ impl = "omp" /\ phase = "start"
   /\ FROM_val < 0 \/ N_val < 0
   /\ main_accepts(FROM_val, N_val) # {}
   /\ phase' = "wrapped"
   /\ UNCHANGED <<impl, prof, run_mode, FROM_val, N_val, max_workers,
                  is_prime, pre_sieve, wk, n_seq, issued, relay, files, pbuf,
                  stdout, count, N_agg, aborted, faults, exit_status>>

\* ----------------------------------------------------- failed allocations
\* the value of a pointer that malloc returned as NULL
NULL == <<-1>>

\* practicalsieve_precalc with a malloc that returns NULL: the failure is
\* reported and the program exits with 2 (is_prime is freed first when it
\* is pre_sieve that failed)
MceTableAllocFails(which) ==
   /\ impl = "mce" /\ phase = "start"
   /\ ArgsOk
   /\ is_prime' = IF which = "is_prime" THEN NULL ELSE << >>
   /\ pre_sieve' = IF which = "pre_sieve" THEN NULL ELSE << >>
   /\ exit_status' = 2
   /\ phase' = "exit"
   /\ UNCHANGED <<impl, prof, run_mode, FROM_val, N_val, max_workers, wk,
                  n_seq, issued, relay, files, pbuf, stdout, count, N_agg,
                  aborted, faults>>

\* primes1.c practicalsieve with a malloc that returns NULL:
\* memset(is_prime, 0xff, mem_sz_q) or memset(pre_sieve, 0xff, mem_sz_p)
\* writes through the null pointer and the process is killed (phase "segv")
OmpTableAllocFails(which) ==
   /\ impl = "omp" /\ phase = "start"
   /\ ArgsOk
   /\ is_prime' = IF which = "is_prime" THEN NULL ELSE SmallPrimes(N_val)
   /\ pre_sieve' = IF which = "pre_sieve" THEN NULL ELSE << >>
   /\ phase' = "segv"
   /\ UNCHANGED <<impl, prof, run_mode, FROM_val, N_val, max_workers, wk,
                  n_seq, issued, relay, files, pbuf, stdout, count, N_agg,
                  aborted, faults, exit_status>>

\* sieve = malloc(mem_sz) returns NULL in worker w: the next statement,
\* memcpy(sieve, pre_sieve, mem_sz), writes through the null pointer and
\* the process (thread team or MCE worker) is killed
SegmentAllocFails(w) ==
   /\ phase = "run"
   /\ w \in Workers
   /\ IF impl = "omp"
      THEN wk[w].pc = "idle" /\ wk[w].next < num_chunks
      ELSE wk[w].pc = "have"
   /\ wk' = [wk EXCEPT ![w] = [@ EXCEPT !.pc = "segv", !.sieve = NULL]]
   /\ phase' = "segv"
   /\ UNCHANGED <<impl, prof, run_mode, FROM_val, N_val, max_workers,
                  is_prime, pre_sieve, n_seq, issued, relay, files, pbuf,
                  stdout, count, N_agg, aborted, faults, exit_status>>

\* ------------------------------------------------------------------- spec
Next ==
   \/ Precalc
   \/ \E w \in 1..MaxWorkers : OmpIter(w)
   \/ \E w \in 1..MaxWorkers : OmpOutput(w)
   \/ OmpFinish
   \/ \E w \in 1..MaxWorkers : GetChunk(w)
   \/ \E w \in 1..MaxWorkers : \E fail \in BOOLEAN : \E part \in FailParts :
         UserFunc(w, fail, part)
   \/ \E w \in 1..MaxWorkers : Relay(w)
   \/ \E w \in 1..MaxWorkers : Gather(w)
   \/ MceEnd

Spec == Init /\ [][Next]_vars

\* Runs on arguments of every kind, refused ones included, in which an
\* allocation may fail
ArgValues == {-1, 0, 1, 2, 7, 30, SumLimit + 1, LIMIT_MAX + 1}

InitArgs ==
   /\ impl \in {"omp", "mce"}
   /\ prof \in {FullProfile, ScaledProfile}
   /\ run_mode \in Modes(impl)
   /\ FROM_val \in ArgValues
   /\ N_val \in ArgValues
   /\ max_workers \in WorkerCounts(prof)
   /\ (impl = "mce" /\ FROM_val = N_val => max_workers = 1)
   /\ (N_val > 30 => max_workers = 1)
   /\ phase = "start"
   /\ is_prime = << >>
   /\ pre_sieve = << >>
   /\ wk = [w \in 1..MaxWorkers |-> IdleWorker]
   /\ n_seq = 0
   /\ issued = 0
   /\ relay = 0
   /\ files = << >>
   /\ pbuf = << >>
   /\ stdout = << >>
   /\ count = 0
   /\ N_agg = 0
   /\ aborted = FALSE
   /\ faults \in FaultCounts(impl, run_mode, FROM_val)
   /\ exit_status = -1

NextArgs ==
   \/ Next
   \/ MceReject
   \/ OmpReject
   \/ OmpWrapped
   \/ \E which \in {"is_prime", "pre_sieve"} : MceTableAllocFails(which)
   \/ \E which \in {"is_prime", "pre_sieve"} : OmpTableAllocFails(which)
   \/ \E w \in 1..MaxWorkers : SegmentAllocFails(w)

SpecArgs == InitArgs /\ [][NextArgs]_vars

\* Runs on ranges that start anywhere up to MaxFRange and span several
\* chunks of the "scaled" profile
RangeFroms == {f \in 1..MaxFRange : f % 19 \in {1, 12}}

RangeTos == {n \in 1..MaxNRange : n % 31 \in {0, 5, 29}}

\* under "wheel11": starts with F_adj = 1, 7, 13 and 19, ends in chunk 2
WheelFroms == {1, 12, 18, 24}

WheelTos == {MaxNWheel - 70, MaxNWheel}

RangeInputs(p) ==
   IF p.name = "wheel11"
   THEN WheelFroms \X WheelTos
   ELSE {fn \in RangeFroms \X RangeTos : fn[1] <= fn[2]}

InitRange ==
   /\ impl \in {"omp", "mce"}
   /\ prof \in {FullProfile, Full19Profile, ScaledProfile, Wheel11Profile}
   /\ run_mode \in {MODE_COUNT, MODE_PRINT}
   /\ \E fn \in RangeInputs(prof) : FROM_val = fn[1] /\ N_val = fn[2]
   /\ max_workers \in WorkerCounts(prof)
   /\ phase = "start"
   /\ is_prime = << >>
   /\ pre_sieve = << >>
   /\ wk = [w \in 1..MaxWorkers |-> IdleWorker]
   /\ n_seq = 0
   /\ issued = 0
   /\ relay = 0
   /\ files = << >>
   /\ pbuf = << >>
   /\ stdout = << >>
   /\ count = 0
   /\ N_agg = 0
   /\ aborted = FALSE
   /\ faults = 0
   /\ exit_status = -1

SpecRange == InitRange /\ [][Next]_vars

\* The chunk bounds of ranges that are short, that end at the largest N,
\* or that (under "full", whose chunks are few) span all integers
NearLimit == {LIMIT_MAX - d : d \in {0, 1, 59, 60, 61, 130}}

ChunkInputs(i, p) ==
   {<<1, 1>>, <<1, 125>>, <<12, 186>>, <<1, MaxNOrdered>>}
   \cup {fn \in NearLimit \X NearLimit : fn[1] <= fn[2]}
   \cup (IF i = "omp" \/ p.name = "full" THEN {<<1, LIMIT_MAX>>} ELSE {})

InitChunks ==
   /\ impl \in {"omp", "mce"}
   /\ prof \in {FullProfile, ScaledProfile, Wheel11Profile}
   /\ run_mode = MODE_COUNT
   /\ \E fn \in ChunkInputs(impl, prof) : FROM_val = fn[1] /\ N_val = fn[2]
   /\ max_workers = 1
   /\ phase = "chunks"
   /\ is_prime = << >>
   /\ pre_sieve = << >>
   /\ wk = [w \in 1..MaxWorkers |-> IdleWorker]
   /\ n_seq = 0
   /\ issued = 0
   /\ relay = 0
   /\ files = << >>
   /\ pbuf = << >>
   /\ stdout = << >>
   /\ count = 0
   /\ N_agg = 0
   /\ aborted = FALSE
   /\ faults = 0
   /\ exit_status = -1

NextChunks ==
   \/ OmpBounds
   \/ MceBounds
   \/ BoundsDone

SpecChunks == InitChunks /\ [][NextChunks]_vars

\* Runs of primes1 with the ordered construct at its own grain, on ranges
\* of one to five chunks
OrderedTos == {n \in 1..MaxNOrdered : n % 62 = 1}

InitOrdered ==
   /\ impl = "omp"
   /\ prof \in {FullProfile, ScaledProfile}
   /\ run_mode \in {MODE_COUNT, MODE_PRINT}
   /\ FROM_val \in {1, 12}
   /\ N_val \in OrderedTos
   /\ FROM_val <= N_val
   /\ max_workers \in WorkerCounts(prof)
   /\ phase = "start"
   /\ is_prime = << >>
   /\ pre_sieve = << >>
   /\ wk = [w \in 1..MaxWorkers |-> IdleWorker]
   /\ n_seq = 0
   /\ issued = 0
   /\ relay = 0
   /\ files = << >>
   /\ pbuf = << >>
   /\ stdout = << >>
   /\ count = 0
   /\ N_agg = 0
   /\ aborted = FALSE
   /\ faults = 0
   /\ exit_status = -1

NextOrdered ==
   \/ Precalc
   \/ \E w \in 1..MaxWorkers : OmpIter(w)
   \/ \E w \in 1..MaxWorkers : OmpCount(w)
   \/ \E w \in 1..MaxWorkers : OmpEnter(w)
   \/ \E w \in 1..MaxWorkers : OmpEmit(w)
   \/ OmpFinish

SpecOrdered == InitOrdered /\ [][NextOrdered]_vars

\* Runs of primes1 from the first integers to the largest N, beside short
\* runs
LongFroms == {1, 2, 3, 5}

InitLong ==
   /\ impl = "omp"
   /\ prof \in {ScaledProfile, Wheel11Profile}
   /\ run_mode \in {MODE_COUNT, MODE_PRINT}
   /\ \/ FROM_val \in LongFroms /\ N_val = LIMIT_MAX
      \/ FROM_val = 1 /\ N_val \in OrderedTos
   /\ max_workers \in WorkerCounts(prof)
   /\ phase = "start"
   /\ is_prime = << >>
   /\ pre_sieve = << >>
   /\ wk = [w \in 1..MaxWorkers |-> IdleWorker]
   /\ n_seq = 0
   /\ issued = 0
   /\ relay = 0
   /\ files = << >>
   /\ pbuf = << >>
   /\ stdout = << >>
   /\ count = 0
   /\ N_agg = 0
   /\ aborted = FALSE
   /\ faults = 0
   /\ exit_status = -1

SpecLong == InitLong /\ [][NextOrdered]_vars

\* One loop alone: the loop that starts at i = 1 with (c, k, t) = (0, 1, 2)
\* (is_prime, pre_sieve) and the worker's loop, which starts after the
\* pre-sieved indexes with the constants of its profile, on arrays that
\* start at 1, at 7, and at multiples of 5, 7, 11 and 17
KernelStarts == {1, 7, 55, 121, 385, 1003, 2311}

KernelLocals(loop, p, start) ==
   [pc |-> "recur", loop |-> loop, start |-> start,
    sieve |-> AllOnes(KernelBytes),
    i |-> IF loop = "worker" THEN p.nPre + 1 ELSE 1,
    c |-> IF loop = "worker" THEN p.c0 ELSE 0,
    k |-> IF loop = "worker" THEN p.k0 ELSE 1,
    t |-> IF loop = "worker" THEN p.t0 ELSE 2,
    j |-> 0, ij |-> 0, n |-> 0]

InitKernel ==
   /\ impl \in {"omp", "mce"}
   /\ prof \in {FullProfile, Full19Profile, ScaledProfile, Wheel11Profile}
   /\ run_mode = MODE_COUNT
   /\ FROM_val = 1
   /\ N_val = 1
   /\ max_workers = 1
   /\ phase = "kernel"
   /\ is_prime = << >>
   /\ pre_sieve = << >>
   /\ \E loop \in {"first", "worker"} : \E start \in KernelStarts :
         wk = [w \in 1..MaxWorkers |->
                  IF w = 1 THEN KernelLocals(loop, prof, start)
                  ELSE IdleWorker]
   /\ n_seq = 0
   /\ issued = 0
   /\ relay = 0
   /\ files = << >>
   /\ pbuf = << >>
   /\ stdout = << >>
   /\ count = 0
   /\ N_agg = 0
   /\ aborted = FALSE
   /\ faults = 0
   /\ exit_status = -1

NextKernel ==
   \/ KernelRecur
   \/ KernelSkip
   \/ KernelWalk
   \/ KernelPassEnd

SpecKernel == InitKernel /\ [][NextKernel]_vars

\* ------------------------------------------------ the step-size ladder
\* The drivers compare N with the literals 1e12 .. 1e19, which are doubles:
\* N is converted to a double first.  The word of this model is WordLimit,
\* so the eight literals are the decades 10^2 .. 10^9 here and the double
\* keeps MantBits bits, which leaves the top decades inexact as 53 bits
\* leave 10^16 .. 10^19 inexact for a 64-bit word.  The step sizes are those
\* of the source.
MantBits == 22

BitLen(x) == CHOOSE n \in 0..30 : x < 2^n /\ (n = 0 \/ x >= 2^(n - 1))

\* a conversion that truncates instead of rounding
DoubleOfTrunc(x) ==
   IF BitLen(x) <= MantBits THEN x
   ELSE LET u == 2^(BitLen(x) - MantBits) IN (x \div u) * u

\* (double) x: the nearest value of MantBits bits, ties to the even one
DoubleOf(x) ==
   IF BitLen(x) <= MantBits THEN x
   ELSE LET u  == 2^(BitLen(x) - MantBits)
            q  == x \div u
            r  == x % u
        IN  IF 2 * r < u THEN q * u
            ELSE IF 2 * r > u THEN (q + 1) * u
            ELSE IF q % 2 = 0 THEN q * u ELSE (q + 1) * u

\* the literal 1e(12 + k), k = 0 .. 7
Decade(k) == 10^(k + 2)

\* step_sz = (stop < 1e12) ? 510510 * 12 : 9699690, times the rung
step_size(N) ==
   LET d == DoubleOf(N)
   IN  (IF d < Decade(0) THEN 510510 * 12 ELSE 9699690)
       * (IF d >= Decade(7) THEN 8
          ELSE IF d >= Decade(6) THEN 7
          ELSE IF d >= Decade(5) THEN 6
          ELSE IF d >= Decade(4) THEN 5
          ELSE IF d >= Decade(3) THEN 4
          ELSE IF d >= Decade(2) THEN 3
          ELSE IF d >= Decade(1) THEN 2
          ELSE IF d >= Decade(0) THEN 1
          ELSE 1)

\* the pre-sieve set goes with the same comparison
ChosenProfile(N) ==
   IF DoubleOf(N) < Decade(0)
   THEN [FullProfile EXCEPT !.step_sz = step_size(N)]
   ELSE [Full19Profile EXCEPT !.step_sz = step_size(N)]

\* if (N_val < 1e12) step_sz % 510510 else step_sz % 9699690
StepCheckFails(N, step) ==
   IF DoubleOf(N) < Decade(0) THEN step % 510510 # 0
   ELSE step % 9699690 # 0

NoProfile ==
   [name |-> "none", nPre |-> 0, step_sz |-> 0, c0 |-> 0, k0 |-> 0, t0 |-> 0]

\* the driver fixes the step for the run
StepSize ==
   /\ phase = "ladder"
   /\ prof' = ChosenProfile(N_val)
   /\ phase' = "stepped"
   /\ UNCHANGED <<impl, run_mode, FROM_val, N_val, max_workers, is_prime,
                  pre_sieve, wk, n_seq, issued, relay, files, pbuf, stdout,
                  count, N_agg, aborted, faults, exit_status>>

\* practicalsieve_precalc refuses a step that does not fit the pre-sieve;
\* primes1 has no such test
PrecalcStepCheck ==
   /\ phase = "stepped"
   /\ IF impl = "mce" /\ StepCheckFails(N_val, prof.step_sz)
      THEN phase' = "exit" /\ exit_status' = 2
      ELSE phase' = "checked" /\ UNCHANGED exit_status
   /\ UNCHANGED <<impl, prof, run_mode, FROM_val, N_val, max_workers,
                  is_prime, pre_sieve, wk, n_seq, issued, relay, files, pbuf,
                  stdout, count, N_agg, aborted, faults>>

\* the limits enumerated: around every rung, and the largest
LadderNs ==
   {1, 2, 50, LIMIT_MAX - 1, LIMIT_MAX}
   \cup UNION {{Decade(k) - 200, Decade(k) - 129, Decade(k) - 128,
                Decade(k) - 65, Decade(k) - 64, Decade(k) - 17,
                Decade(k) - 16, Decade(k) - 9, Decade(k) - 8,
                Decade(k) - 3, Decade(k) - 2, Decade(k) - 1, Decade(k),
                Decade(k) + 1, Decade(k) + 300}
               \cap 1..LIMIT_MAX : k \in 0..7}

InitLadder ==
   /\ impl \in {"omp", "mce"}
   /\ prof = NoProfile
   /\ run_mode = MODE_COUNT
   /\ FROM_val = 1
   /\ N_val \in LadderNs
   /\ max_workers = 1
   /\ phase = "ladder"
   /\ is_prime = << >>
   /\ pre_sieve = << >>
   /\ wk = [w \in 1..MaxWorkers |-> IdleWorker]
   /\ n_seq = 0
   /\ issued = 0
   /\ relay = 0
   /\ files = << >>
   /\ pbuf = << >>
   /\ stdout = << >>
   /\ count = 0
   /\ N_agg = 0
   /\ aborted = FALSE
   /\ faults = 0
   /\ exit_status = -1

NextLadder ==
   \/ StepSize
   \/ PrecalcStepCheck

SpecLadder == InitLadder /\ [][NextLadder]_vars

\* The steps as the scheduler sees them.  A step that sieves or prints is
\* enabled exactly when its guard holds, and it is the only step of
\* NextOrdered that takes the thread from that guard to the position it
\* leaves it in.  The first disjunct gives the guard a successor that needs
\* no sieve to be computed; it is a step of no action (no action sets the
\* position "scheduled"), so a fair behaviour of NextOrdered takes the step
\* through the second disjunct, which is the step of the action.
SetupTurn ==
   /\ phase = "start" /\ ArgsOk
   /\ \/ phase' = "scheduled"
         /\ UNCHANGED <<impl, prof, run_mode, FROM_val, N_val, max_workers,
                        is_prime, pre_sieve, wk, n_seq, issued, relay, files,
                        pbuf, stdout, count, N_agg, aborted, faults,
                        exit_status>>
      \/ phase' = "run"

ThreadTurn(w, guard, from, to) ==
   /\ impl = "omp" /\ phase = "run"
   /\ w \in Workers
   /\ wk[w].pc = from
   /\ guard
   /\ \/ wk' = [wk EXCEPT ![w] = [@ EXCEPT !.pc = "scheduled"]]
         /\ UNCHANGED <<impl, prof, run_mode, FROM_val, N_val, max_workers,
                        phase, is_prime, pre_sieve, n_seq, issued, relay,
                        files, pbuf, stdout, count, N_agg, aborted, faults,
                        exit_status>>
      \/ wk'[w].pc = to

\* OmpIter(w), OmpCount(w) and OmpEmit(w) seen so
IterTurn(w) == ThreadTurn(w, wk[w].next < num_chunks, "idle", "sieved")

CountTurn(w) == ThreadTurn(w, run_mode # MODE_PRINT, "sieved", "idle")

EmitTurn(w) == ThreadTurn(w, run_mode = MODE_PRINT, "emitting", "idle")

\* The same runs under a scheduler that lets every thread that can take a
\* step take one eventually: OpenMP threads are system threads, none is
\* held back forever, and the implicit barrier at the end of the parallel
\* loop lets the initial thread go on once all are through
FairOrdered ==
   /\ SpecOrdered
   /\ WF_vars(SetupTurn)
   /\ \A w \in 1..MaxWorkers :
         /\ WF_vars(IterTurn(w))
         /\ WF_vars(CountTurn(w))
         /\ WF_vars(OmpEnter(w))
         /\ WF_vars(EmitTurn(w))
   /\ WF_vars(OmpFinish)

\* ============================================================ properties
\* n is a prime number, by trial division
IsPrime(n) == n >= 2 /\ \A d \in 2..isqrt(n) : n % d # 0

PrimesIn(lo, hi) == {n \in lo..hi : IsPrime(n)}

\* Reading an output stream back: the positions of its line ends, the
\* decimal value of the digits that end at position i, the position of the
\* line end before position i (0: none)
LFs(b) == {e \in 1..Len(b) : b[e] = LF}

RECURSIVE Dec(_, _)
Dec(b, i) ==
   IF i = 0 \/ b[i] = LF THEN 0 ELSE (b[i] - 48) + 10 * Dec(b, i - 1)

RECURSIVE LineTop(_, _)
LineTop(b, i) == IF i = 0 \/ b[i] = LF THEN i ELSE LineTop(b, i - 1)

\* the value of the line that ends at line end e
LineValue(b, e) == Dec(b, e - 1)

\* every line is a non-empty string of digits closed by a line end
WellFormed(b) ==
   /\ \A x \in 1..Len(b) : b[x] = LF \/ b[x] \in 48..57
   /\ Len(b) > 0 => b[Len(b)] = LF
   /\ \A e \in LFs(b) : e > 1 /\ b[e - 1] # LF

\* the values on the lines of a stream
Emitted(b) == {LineValue(b, e) : e \in LFs(b)}

\* each line holds a larger value than the line before it
Increasing(b) ==
   \A e \in LFs(b) :
      LET top == LineTop(b, e - 1)
      IN  top = 0 \/ LineValue(b, top) < LineValue(b, e)

RECURSIVE SumLines(_, _)
SumLines(b, e) ==
   IF e = 0 THEN 0 ELSE LineValue(b, e) + SumLines(b, LineTop(b, e - 1))

\* the sum of the values on the lines of a well-formed stream
StreamSum(b) == SumLines(b, Len(b))

\* what has been printed so far: standard output, and under omp the bytes
\* printint holds for it
Printed == stdout \o pbuf

\* a write of the run has failed
WriteFailed == aborted \/ \E w \in Workers : wk[w].ret < 0

\* the result a COUNT or SUM run reports
Result == IF impl = "omp" THEN count ELSE N_agg

Done == phase = "exit" /\ ~WriteFailed

\* The serial reference: the chunks of the run taken one at a time in
\* ascending order by a single worker.  Chunk c (from 0) starts at
\* FROM_adj + c * step_sz.
NumChunks ==
   IF impl = "omp" THEN num_chunks ELSE (N_val - FROM_adj) \div step_sz + 1

ChunkStart(c) == FROM_adj + c * step_sz

ChunkStop(c) ==
   IF impl = "omp" THEN OmpHigh(c) ELSE MceStop(ChunkStart(c))

RefSieve(c) ==
   Segment(prof, SmallPrimes(N_val), PreSieveTemplate(prof, FROM_adj, N_val),
           FROM_val, FROM_adj, N_val, ChunkStart(c), ChunkStop(c))

RefValues(c) ==
   SegmentValues(RefSieve(c), FROM_val, ChunkStart(c), ChunkStop(c))

RECURSIVE Format(_, _)
Format(vals, x) ==
   IF x > Len(vals) THEN << >>
   ELSE sprintull(vals[x]) \o <<LF>> \o Format(vals, x + 1)

RECURSIVE RefBytesFrom(_)
RefBytesFrom(c) ==
   IF c >= NumChunks THEN << >>
   ELSE Format(RefValues(c), 1) \o RefBytesFrom(c + 1)

\* the PRINT stream of the serial reference
RefBytes == RefBytesFrom(0)

RECURSIVE RefCountFrom(_)
RefCountFrom(c) ==
   IF c >= NumChunks THEN 0
   ELSE CountSegment(RefSieve(c), FROM_val, ChunkStart(c), ChunkStop(c))
        + RefCountFrom(c + 1)

\* the COUNT result of the serial reference
RefCount == RefCountFrom(0)

RECURSIVE RefSumFrom(_)
RefSumFrom(c) ==
   IF c >= NumChunks THEN 0
   ELSE SumSegment(RefSieve(c), FROM_val, ChunkStart(c), ChunkStop(c))
        + RefSumFrom(c + 1)

\* the SUM result of the serial reference
RefSum == RefSumFrom(0)

\* C1: while no write has failed, every value printed (on standard output,
\* in printint's buffer, in a chunk file) is a prime, and every set bit of a
\* segment whose sieve loop has finished stands for a prime: bit 0 is clear
\* and a set bit i stands for n_off + 3i + 2 (i odd) or n_off + 3i + 1
\* (i even), which is prime.
C1_OnlyPrimes ==
   ~WriteFailed =>
      /\ \A v \in Emitted(Printed) : IsPrime(v)
      /\ \A c \in DOMAIN files : \A v \in Emitted(files[c]) : IsPrime(v)
      /\ \A w \in Workers :
            wk[w].pc \in {"sieved", "relayed"} =>
               \A i \in 0..(mem_sz_of(wk[w].start, wk[w].stop) * 8 - 1) :
                  GETBIT(wk[w].sieve, i) =>
                     i >= 1 /\ IsPrime(wk[w].start - 1 + Or1(3 * i + 1))

C1_Witness ==
   /\ phase = "exit" /\ ~aborted
   /\ run_mode = MODE_PRINT /\ prof.name = "scaled" /\ max_workers = 2
   /\ FROM_val = 1 /\ N_val = 125
   /\ Cardinality(Emitted(stdout)) = 30

\* a run from F = 12 under "wheel11" has printed 2321 = 11 * 211, the
\* integer one step after 11
C1_CompositeEmitted ==
   /\ phase = "exit" /\ run_mode = MODE_PRINT
   /\ prof.name = "wheel11" /\ FROM_val = 12
   /\ 2321 \in Emitted(stdout)

\* C2: a run whose writes succeed prints, one per line, exactly the primes
\* of [F, N], each on one line only; a COUNT run reports their number.
C2_EveryPrimeOnce ==
   Done =>
      /\ run_mode = MODE_PRINT =>
            /\ WellFormed(stdout)
            /\ Emitted(stdout) = PrimesIn(FROM_val, N_val)
            /\ Cardinality(LFs(stdout))
                  = Cardinality(PrimesIn(FROM_val, N_val))
      /\ run_mode = MODE_COUNT =>
            Result = Cardinality(PrimesIn(FROM_val, N_val))

C2_Witness ==
   /\ phase = "exit"
   /\ impl = "omp" /\ run_mode = MODE_COUNT /\ max_workers = 2
   /\ FROM_val = 7 /\ N_val = 125 /\ num_chunks = 3
   /\ count = 27

\* C3: while no write has failed, no value printed is below F or above N.
C3_RangeExact ==
   ~WriteFailed =>
      /\ \A v \in Emitted(Printed) : FROM_val <= v /\ v <= N_val
      /\ \A c \in DOMAIN files :
            \A v \in Emitted(files[c]) : FROM_val <= v /\ v <= N_val

\* F is off the wheel boundary (F_adj < F) and N is inside the last segment
C3_Witness ==
   /\ phase = "exit" /\ ~aborted
   /\ run_mode = MODE_PRINT
   /\ FROM_val = 8 /\ FROM_adj = 1 /\ N_val = 100
   /\ ChunkStart(NumChunks - 1) + step_sz - 1 > N_val
   /\ Cardinality(LFs(stdout)) = 21

\* C4: while no write has failed, the lines printed so far hold strictly
\* increasing values, in every state of every interleaving.
C4_Increasing == ~WriteFailed => Increasing(Printed)

\* a later chunk is sieved and waits for its turn while an earlier chunk
\* has not been printed
C4_Witness ==
   /\ run_mode = MODE_PRINT /\ max_workers = 2 /\ phase = "run"
   /\ \E w \in Workers :
         wk[w].pc = "sieved" /\ wk[w].chunk_id > relay
         /\ \E v \in Workers : v # w /\ wk[v].pc = "idle"
   /\ Len(Printed) > 0

\* C5: a run whose writes succeed ends with the result of the serial
\* reference, whatever the worker count and the schedule: the same PRINT
\* byte stream, the same COUNT result, the same SUM result.
C5_ThreadInvariant ==
   Done =>
      /\ run_mode = MODE_PRINT => stdout = RefBytes
      /\ run_mode = MODE_COUNT => Result = RefCount
      /\ run_mode = MODE_SUM => Result = RefSum

C5_Witness ==
   /\ phase = "exit" /\ ~aborted
   /\ max_workers = 2 /\ NumChunks = 3
   /\ run_mode = MODE_PRINT /\ impl = "mce"
   /\ Len(stdout) > 0 /\ stdout = RefBytes

\* C6: the COUNT result of a run equals the number of lines of the PRINT
\* stream for the same F and N.
C6_CountIsLines ==
   Done /\ run_mode = MODE_COUNT => Result = Cardinality(LFs(RefBytes))

C6_Witness ==
   /\ phase = "exit" /\ run_mode = MODE_COUNT
   /\ prof.name = "full" /\ FROM_val = 1 /\ N_val = 300
   /\ Result = 62

\* C7: a PRINT run whose writes succeed has a line 2 iff F <= 2 <= N and a
\* line 3 iff F <= 3 <= N, each at most once and with no larger value on an
\* earlier line; a COUNT run counts 2 and 3 exactly when they are in [F, N].
C7_TwoAndThree ==
   Done =>
      /\ run_mode = MODE_PRINT =>
            \A p \in {2, 3} :
               LET at == {e \in LFs(stdout) : LineValue(stdout, e) = p}
               IN  /\ (at # {}) <=> (FROM_val <= p /\ p <= N_val)
                   /\ Cardinality(at) <= 1
                   /\ \A e \in at : \A d \in LFs(stdout) :
                         d < e => LineValue(stdout, d) < p
      /\ run_mode = MODE_COUNT =>
            Result - Cardinality({n \in PrimesIn(FROM_val, N_val) : n >= 5})
               = Cardinality({2, 3} \cap (FROM_val..N_val))

C7_Witness ==
   /\ phase = "exit" /\ ~aborted
   /\ run_mode = MODE_PRINT /\ max_workers = 2 /\ NumChunks = 2
   /\ FROM_val = 3
   /\ 3 \in Emitted(stdout) /\ 2 \notin Emitted(stdout)

\* C8: the SUM result of a run equals the sum, in word arithmetic, of the
\* values on the lines of the PRINT stream for the same F and N, whatever
\* the order in which the partial sums were gathered.
C8_SumIsPrintSum ==
   Done /\ run_mode = MODE_SUM => Result = U64(StreamSum(RefBytes))

C8_Witness ==
   /\ phase = "exit" /\ run_mode = MODE_SUM
   /\ max_workers = 2 /\ NumChunks = 3
   /\ FROM_val = 1 /\ N_val = 125
   /\ Result = 1593

\* C9: once MCE->abort() has been called no further chunk is handed out;
\* and the output of the chunks in flight is discarded: the file of a chunk
\* whose write failed is not copied to standard output, and nothing is
\* copied to standard output after the abort.
C9_AbortDiscards ==
   [][/\ aborted => issued' = issued
      /\ aborted => stdout' = stdout
      /\ \A w \in 1..MaxWorkers :
            (wk[w].pc = "sieved" /\ wk'[w].pc = "relayed" /\ wk[w].ret < 0)
               => stdout' = stdout]_vars

\* the run F = 1, N = 125 in which the write of chunk 1 fails after the
\* bytes "2\n3" and chunk 2 (67, 71, ...) is in flight: standard output ends
\* up with the lines 2, 367, 71, ...
C9_Witness ==
   /\ phase = "exit" /\ aborted
   /\ FROM_val = 1 /\ N_val = 125 /\ prof.name = "scaled"
   /\ 367 \in Emitted(stdout) /\ 5 \notin Emitted(stdout)

\* C10 as amended: a run of algorithm3.pl whose writes succeed exits with
\* status 0 if a prime lies in [F, N] and with status 1 if none does, in
\* COUNT, SUM and PRINT mode; a run of primes1 exits with status 0.
C10_ExitStatus ==
   Done =>
      /\ impl = "mce" =>
            exit_status = (IF PrimesIn(FROM_val, N_val) # {} THEN 0 ELSE 1)
      /\ impl = "omp" => exit_status = 0

C10_Witness ==
   /\ phase = "exit" /\ impl = "mce" /\ run_mode = MODE_PRINT
   /\ FROM_val = 24 /\ N_val = 28
   /\ stdout = << >> /\ exit_status = 1

\* C10 as stated: every run whose writes succeed exits with status 0 if a
\* prime lies in [F, N] and with status 1 if none does.
C10_Original ==
   Done => exit_status = (IF PrimesIn(FROM_val, N_val) # {} THEN 0 ELSE 1)

\* the arguments are among those the claim names: F < 1, N < F,
\* N > 2^64 - 7, or N above the limit of --sum in SUM mode
BadArgs ==
   \/ FROM_val < 1
   \/ N_val < FROM_val
   \/ N_val > LIMIT_MAX
   \/ run_mode = MODE_SUM /\ N_val > SumLimit

\* nothing has been built, sieved or printed
NothingDone ==
   /\ is_prime = << >> /\ pre_sieve = << >>
   /\ \A w \in 1..MaxWorkers : wk[w] = IdleWorker
   /\ issued = 0
   /\ stdout = << >> /\ pbuf = << >> /\ files = << >>
   /\ count = 0 /\ N_agg = 0

\* C11 for algorithm3.pl: a run on refused arguments never builds a table,
\* sieves a segment or prints, and ends with an exit status above 1.
C11_Perl ==
   impl = "mce" /\ BadArgs =>
      /\ phase \in {"start", "exit"}
      /\ NothingDone
      /\ phase = "exit" => exit_status > 1

\* C11: a run with F < 1, N < F, N > 2^64 - 7, or (SUM mode) N above the
\* limit of --sum never builds a table, sieves a segment or prints, and
\* ends with an exit status above 1.
C11_Rejected ==
   BadArgs =>
      /\ phase \in {"start", "exit"}
      /\ NothingDone
      /\ phase = "exit" => exit_status > 1

\* primes1 has refused with status 1; primes1 has entered practicalsieve
\* with F < 1
C11_Witness ==
   /\ impl = "omp" /\ BadArgs
   /\ \/ phase = "exit" /\ exit_status = OmpRejectCode
      \/ phase = "wrapped" /\ FROM_val < 1

C11_Wrapped == phase = "wrapped" /\ FROM_val < 1 /\ N_val = FROM_val

\* an allocation of a table or of a segment buffer has failed
AllocFailed ==
   \/ is_prime = NULL
   \/ pre_sieve = NULL
   \/ \E w \in 1..MaxWorkers : wk[w].sieve = NULL

\* C12 for practicalsieve_precalc of algorithm3.c: a failed allocation of
\* is_prime or pre_sieve ends the run with exit status 2 and the null
\* pointer is never used.
C12_Precalc ==
   impl = "mce" /\ (is_prime = NULL \/ pre_sieve = NULL) =>
      phase = "exit" /\ exit_status > 1

\* C12: if the allocation of is_prime, of pre_sieve or of a segment buffer
\* fails, the run ends as a reported fatal error with an exit status above
\* 1 and nothing is read or written through the null pointer.
C12_AllocChecked ==
   AllocFailed => phase = "exit" /\ exit_status > 1

\* a worker of algorithm3.pl has copied the template into a null segment
\* buffer
C12_Witness ==
   /\ impl = "mce" /\ phase = "segv"
   /\ \E w \in Workers : wk[w].sieve = NULL /\ wk[w].chunk_id = 2

\* ----------------------------------------------------------- the tables
\* the primes the template is sieved with
PrePrimes(p) == CASE p.nPre = 6 -> {5, 7, 11, 13, 17, 19}
                  [] p.nPre = 5 -> {5, 7, 11, 13, 17}
                  [] p.nPre = 3 -> {5, 7, 11}
                  [] OTHER -> {5}

\* the integer of bit i of an array whose bit 0 stands for n_off + 1
ValueAt(n_off, i) == n_off + Or1(3 * i + 1)

\* bit i of the template of a run whose adjusted start is Fadj: set for the
\* integers in 1..sieve_sz that no pre-sieve prime divides, and for a
\* pre-sieve prime itself unless the template starts at 1 (byte 0 is then
\* overwritten)
RefTemplateBit(p, Fadj, i) ==
   /\ 1 <= i /\ i <= sieve_sz_of(p)
   /\ \A d \in PrePrimes(p) :
         LET v == ValueAt(Fadj - 1, i)
         IN  v % d # 0 \/ (v = d /\ Fadj # 1)

RefByte(p, Fadj, b) ==
   (IF RefTemplateBit(p, Fadj, 8 * b) THEN 1 ELSE 0)
   + (IF RefTemplateBit(p, Fadj, 8 * b + 1) THEN 2 ELSE 0)
   + (IF RefTemplateBit(p, Fadj, 8 * b + 2) THEN 4 ELSE 0)
   + (IF RefTemplateBit(p, Fadj, 8 * b + 3) THEN 8 ELSE 0)
   + (IF RefTemplateBit(p, Fadj, 8 * b + 4) THEN 16 ELSE 0)
   + (IF RefTemplateBit(p, Fadj, 8 * b + 5) THEN 32 ELSE 0)
   + (IF RefTemplateBit(p, Fadj, 8 * b + 6) THEN 64 ELSE 0)
   + (IF RefTemplateBit(p, Fadj, 8 * b + 7) THEN 128 ELSE 0)

RefTemplate(p, Fadj, N) ==
   [b \in 0..(TemplateBytes(p, Fadj, N) - 1) |-> RefByte(p, Fadj, b)]

\* the tables are in place: from the end of the setup to their release
TablesBuilt == phase = "run"

\* C13 as amended: is_prime is a function of N alone and pre_sieve a
\* function of N and F_adj alone (two runs with the same N and the same
\* F_adj hold identical tables, whatever the mode and the worker count);
\* the tables stay as built throughout the parallel phase.
C13_TablesByAdjustedStart ==
   TablesBuilt =>
      /\ is_prime = SmallPrimes(N_val)
      /\ pre_sieve = RefTemplate(prof, FROM_adj, N_val)

\* a run from F = 12 (F_adj = 7): its template is not that of the run from
\* F = 1 to the same N
C13_Witness ==
   /\ TablesBuilt /\ prof.name = "scaled"
   /\ FROM_val = 12 /\ FROM_adj = 7
   /\ pre_sieve = RefTemplate(prof, 7, N_val)
   /\ pre_sieve # RefTemplate(prof, 1, N_val)

\* C13 as stated: the tables of a run are those of every run with the same
\* N, the run from F = 1 among them.
C13_SameForEveryF ==
   TablesBuilt =>
      /\ is_prime = SmallPrimes(N_val)
      /\ pre_sieve = RefTemplate(prof, 1, N_val)

\* --------------------------------------------------------------- tiling
\* the segment of worker w as it is right after the template is copied
Copied(w) == TemplateCopy(pre_sieve, wk[w].start, wk[w].stop)

\* worker w holds a chunk whose bounds are known and that is not the first
LaterChunk(w) ==
   /\ w \in Workers
   /\ wk[w].pc = "sieved"
   /\ wk[w].start # FROM_adj

\* C14: for every chunk other than the first, right after the template is
\* copied into the segment, no set bit at an index in 1..M+1 stands for an
\* integer that a pre-sieve prime divides.
C14_TemplateTiles ==
   \A w \in 1..MaxWorkers :
      LaterChunk(w) =>
         \A i \in 1..(M_of(wk[w].start, wk[w].stop) + 1) :
            GETBIT(Copied(w), i) =>
               \A d \in PrePrimes(prof) :
                  ValueAt(wk[w].start - 1, i) % d # 0

\* chunk 2 of a run from F = 12 (F_adj = 7): after the copy bit 1 is set
\* and stands for 11 + step_sz
C14_Witness ==
   \E w \in Workers :
      /\ LaterChunk(w) /\ FROM_adj = 7 /\ prof.name = "wheel11"
      /\ wk[w].start = FROM_adj + step_sz
      /\ GETBIT(Copied(w), 1)
      /\ ValueAt(wk[w].start - 1, 1) = 11 + step_sz

\* C14 where it holds: the template tiles when no pre-sieve prime lies in
\* the first segment above its bit 0 (F_adj = 1, or F_adj above the
\* largest pre-sieve prime)
C14_TilesFarStart ==
   \A w \in 1..MaxWorkers :
      LaterChunk(w)
      /\ (FROM_adj = 1 \/ \A d \in PrePrimes(prof) : d <= FROM_adj) =>
         \A i \in 1..(M_of(wk[w].start, wk[w].stop) + 1) :
            GETBIT(Copied(w), i) =>
               \A d \in PrePrimes(prof) :
                  ValueAt(wk[w].start - 1, i) % d # 0

\* ------------------------------------------------------ chunk coverage
\* chunk c (from 0) reads, in its output loop, a bit that stands for v
Inspects(c, v) ==
   LET n_off == ChunkStart(c) - 1
       i == (v - n_off) \div 3
   IN  /\ v > n_off
       /\ 1 <= i
       /\ i <= LastInspected(M_of(ChunkStart(c), ChunkStop(c)))
       /\ ValueAt(n_off, i) = v

\* chunk c has index i <= M + 1 standing for v
Indexes(c, v) ==
   LET n_off == ChunkStart(c) - 1
       i == (v - n_off) \div 3
   IN  /\ v > n_off
       /\ 1 <= i
       /\ i <= M_of(ChunkStart(c), ChunkStop(c)) + 1
       /\ ValueAt(n_off, i) = v

\* the chunk a worker holds is a chunk of the table, and its bit 0 is clear
HeldChunksListed ==
   \A w \in Workers :
      wk[w].pc = "sieved" =>
         /\ \E c \in 0..(NumChunks - 1) :
               wk[w].start = ChunkStart(c) /\ wk[w].stop = ChunkStop(c)
         /\ ~GETBIT(wk[w].sieve, 0)

\* the integer on the boundary after chunk c is bit M + 1 of chunk c
BoundaryAtLastBit ==
   \A c \in 0..(NumChunks - 2) :
      LET M == M_of(ChunkStart(c), ChunkStop(c))
      IN  /\ ValueAt(ChunkStart(c) - 1, M + 1) = FROM_adj + (c + 1) * step_sz
          /\ LastInspected(M) = M + 1

\* C15 as amended: every integer v >= 5 coprime to 6 with F <= v <= N stands
\* at an index in 1..M+1 of exactly one chunk, and the output loop of that
\* chunk reads it; the integer on the boundary between chunks k and k+1 is
\* bit M+1 of chunk k, and bit 0 of every segment is clear.
C15_OneChunkPerCandidate ==
   TablesBuilt =>
      /\ \A v \in FROM_val..N_val :
            v >= 5 /\ v % 6 \in {1, 5} =>
               /\ Cardinality({c \in 0..(NumChunks - 1) : Indexes(c, v)}) = 1
               /\ \E c \in 0..(NumChunks - 1) : Inspects(c, v)
      /\ BoundaryAtLastBit
      /\ HeldChunksListed

\* a worker holds chunk 1 of a run of three chunks from F_adj = 7; the
\* boundary integer 67 is read by chunk 0 alone
C15_Witness ==
   /\ TablesBuilt /\ prof.name = "scaled" /\ FROM_adj = 7 /\ NumChunks = 3
   /\ \E w \in Workers : wk[w].pc = "sieved" /\ wk[w].start = 67
   /\ Inspects(0, 67) /\ ~Inspects(1, 67)

\* C15 as stated: every integer v coprime to 6 with F <= v <= N stands at
\* an index in 1..M+1 of exactly one chunk.
C15_EveryCoprime ==
   TablesBuilt =>
      \A v \in FROM_val..N_val :
         v % 6 \in {1, 5} =>
            Cardinality({c \in 0..(NumChunks - 1) : Indexes(c, v)}) = 1

\* ------------------------------------------------- start and end clear
\* the segment of worker w after its start clear and its end clear
Cleared(w) ==
   EndClear(StartClear(Copied(w), wk[w].start, FROM_adj, FROM_val),
            wk[w].start, wk[w].stop, N_val)

\* C16: after the start clear and the end clear of a segment, every bit at
\* an index >= 1 whose integer is < F (first segment) or > N (last segment)
\* is clear, and no bit that the two steps cleared stands for an integer of
\* [F, N]; a segment may be first and last at once.
C16_ClearsExact ==
   \A w \in Workers :
      wk[w].pc = "sieved" =>
         \A i \in 1..(mem_sz_of(wk[w].start, wk[w].stop) * 8 - 1) :
            LET v == ValueAt(wk[w].start - 1, i)
            IN  /\ wk[w].start = FROM_adj /\ v < FROM_val =>
                      ~GETBIT(Cleared(w), i)
                /\ wk[w].stop = N_val /\ v > N_val => ~GETBIT(Cleared(w), i)
                /\ GETBIT(Copied(w), i) /\ ~GETBIT(Cleared(w), i) =>
                      v < FROM_val \/ v > N_val

\* a segment that is first and last, [25, 36] of the run from F = 31 to
\* 36: both steps have cleared a bit (29 below F, 37 above N) and 31 stays
C16_Witness ==
   \E w \in Workers :
      /\ wk[w].pc = "sieved" /\ prof.name = "scaled"
      /\ FROM_val = 31 /\ N_val = 36
      /\ wk[w].start = FROM_adj /\ wk[w].stop = N_val
      /\ GETBIT(Copied(w), 1) /\ ~GETBIT(Cleared(w), 1)
      /\ GETBIT(Copied(w), 4) /\ ~GETBIT(Cleared(w), 4)
      /\ GETBIT(Cleared(w), 2)

\* ------------------------------------------------------ ordered emission
\* the workers inside the emission section
Emitting == {w \in Workers : wk[w].pc = "emitting"}

\* the PRINT stream of the chunks before chunk c of the serial reference
RECURSIVE RefBytesBefore(_)
RefBytesBefore(c) ==
   IF c <= 0 THEN << >>
   ELSE RefBytesBefore(c - 1) \o Format(RefValues(c - 1), 1)

\* C17: in PRINT mode at most one worker at a time is inside the emission
\* section; a worker is inside for chunk c only when the emission of every
\* chunk before c has completed (c emissions are over and what has been
\* printed is the stream of the chunks before c); the final flush has
\* happened only when every worker has finished all its chunks.
C17_OrderedEmission ==
   /\ Cardinality(Emitting) <= 1
   /\ \A w \in Emitting :
         /\ relay = wk[w].chunk_id
         /\ Printed = RefBytesBefore(wk[w].chunk_id)
   /\ phase = "exit" =>
         /\ \A w \in Workers : wk[w].pc = "idle" /\ wk[w].next >= num_chunks
         /\ run_mode = MODE_PRINT => relay = num_chunks /\ pbuf = << >>

\* worker 2 is inside the section for chunk 1 while worker 1 has already
\* sieved chunk 2 and waits
C17_Witness ==
   /\ max_workers = 2 /\ num_chunks >= 3
   /\ wk[2].pc = "emitting" /\ wk[2].chunk_id = 1
   /\ wk[1].pc = "sieved" /\ wk[1].chunk_id = 2
   /\ Len(Printed) > 0

\* C18: under fair scheduling the run reaches the end of primes1 with every
\* chunk sieved and, in PRINT mode, emitted in full (the stream of the
\* serial reference is on standard output after the final flush), and no
\* worker that has sieved a chunk waits forever for its turn.
C18_EmissionLive ==
   /\ <>(/\ phase = "exit"
         /\ \A w \in Workers : wk[w].next >= num_chunks
         /\ run_mode = MODE_PRINT => relay = num_chunks /\ stdout = RefBytes)
   /\ \A w \in 1..MaxWorkers :
         (wk[w].pc = "sieved") ~> (wk[w].pc = "idle")

\* a run of five chunks on two threads has ended with all five emitted
C18_Witness ==
   /\ phase = "exit" /\ run_mode = MODE_PRINT
   /\ max_workers = 2 /\ num_chunks = 5
   /\ relay = 5 /\ stdout = RefBytes /\ Len(stdout) > 0

\* ------------------------------------------------------ worker writes
\* the chunks in hand: the one worker w is about to sieve, or holds
ChunksOf(w) ==
   IF w \notin Workers \/ phase # "run" THEN {}
   ELSE IF wk[w].pc \in {"sieved", "emitting"}
        THEN {<<wk[w].start, wk[w].stop>>}
   ELSE IF impl = "omp" /\ wk[w].pc = "idle" /\ wk[w].next < num_chunks
        THEN {<<OmpLow(wk[w].next), OmpHigh(wk[w].next)>>}
   ELSE IF impl = "mce" /\ wk[w].pc = "have"
        THEN {<<wk[w].start, MceStop(wk[w].start)>>}
   ELSE {}

\* the state of the sieve loop when pass i begins (the buffer left out)
RECURSIVE LoopStateAt(_, _)
LoopStateAt(p, i) ==
   IF i <= p.nPre + 1
   THEN [i |-> p.nPre + 1, c |-> p.c0, k |-> p.k0, t |-> p.t0]
   ELSE LET st == LoopStateAt(p, i - 1)
            r == Recur(st)
        IN  [i |-> i, c |-> r.c, k |-> r.k, t |-> r.t]

\* the index of the first bit pass i clears in the segment from start
FirstCleared(p, i, start) ==
   LET r == Recur(LoopStateAt(p, i))
       j_off == (start - 1) \div 3
   IN  SkipAhead(r.c, r.ij, r.t, j_off)[1] - j_off

\* every index the worker writes at in the segment [start, stop] lies in
\* the mem_sz bytes it allocates: the copy of the template, byte 0, bits 1
\* and 2 (start clear), bits M, M + 1 and up to the last (end clear), and
\* the walks, which run from their first index up to M2 - j_off
WritesInBuffer(start, stop) ==
   LET M == M_of(start, stop)
       bits == mem_sz_of(start, stop) * 8
       j_off == (start - 1) \div 3
   IN  /\ mem_sz_of(start, stop) >= 1
       /\ mem_sz_of(start, stop) <= mem_sz_p_of(prof)
       /\ 2 < bits
       /\ 0 <= M /\ M + 1 < bits
       /\ M2_of(stop) - j_off < bits
       /\ \A i \in (prof.nPre + 1)..q_of(stop) :
             FirstCleared(prof, i, start) >= 0

\* a step of the parallel phase leaves the two tables as they are and
\* changes the segment buffer of one worker at most
WorkerFrame ==
   phase = "run" =>
      /\ phase' = "run" => is_prime' = is_prime /\ pre_sieve' = pre_sieve
      /\ Cardinality({w \in 1..MaxWorkers : wk'[w].sieve # wk[w].sieve}) <= 1

\* C19: during the parallel phase no worker step writes to is_prime or
\* pre_sieve, a step writes to the segment buffer of one worker only, and
\* every index a worker writes at lies inside the buffer it allocated for
\* its chunk, so that no two workers write the same byte.
C19_WorkerFrame ==
   /\ [](\A w \in 1..MaxWorkers :
            \A ch \in ChunksOf(w) : WritesInBuffer(ch[1], ch[2]))
   /\ [][WorkerFrame]_vars

\* two workers hold a sieved segment each, of different chunks, and the
\* tables are as built
C19_Witness ==
   /\ phase = "run" /\ max_workers = 2
   /\ wk[1].pc = "sieved" /\ wk[2].pc = "sieved"
   /\ wk[1].start # wk[2].start
   /\ wk[1].sieve # << >> /\ wk[2].sieve # << >>
   /\ is_prime = SmallPrimes(N_val)

\* -------------------------------------------------------- chunk bounds
\* the chunk just computed is chunk k (from 0) of the range
ChunkIndex == issued - 1

\* the chunk in wk[1] has the bounds of the claim, in unbounded arithmetic
BoundsAsStated ==
   wk[1].pc = "have" =>
      /\ wk[1].start = FROM_adj + ChunkIndex * step_sz
      /\ wk[1].stop = Min(wk[1].start + step_sz - 1, N_val)
      /\ wk[1].start <= wk[1].stop /\ wk[1].stop <= N_val
      /\ wk[2].pc = "have" => wk[2].stop + 1 = wk[1].start

\* C20 for the chunks that are computed: chunk k has low = F_adj +
\* k*step_sz and high = min(low + step_sz - 1, N), low <= high <= N, also
\* when low + step_sz - 1 wraps; high_k + 1 = low_(k+1); and when the loop
\* ends after at least one chunk, the last has high = N.
C20_BoundsOfComputed ==
   /\ BoundsAsStated
   /\ phase = "chunked" /\ issued > 0 => wk[1].stop = N_val

\* C20: the same, and the chunks reach N: the loop ends after at least one
\* chunk, the last of which has high = N.
C20_ChunksReachN ==
   /\ BoundsAsStated
   /\ phase = "chunked" => issued > 0 /\ wk[1].stop = N_val

\* primes1 has computed a last chunk whose low + step_sz - 1 wraps
C20_Witness ==
   /\ impl = "omp" /\ phase = "chunked" /\ issued = 3
   /\ wk[1].start + step_sz - 1 >= WordLimit
   /\ U64(wk[1].start + step_sz - 1) < wk[1].start
   /\ wk[1].stop = N_val /\ N_val = LIMIT_MAX

\* primes1 from 1 to the largest N: num_chunks has wrapped to 0 and the
\* loop has ended without a chunk
C20_NoChunk ==
   /\ impl = "omp" /\ phase = "chunked"
   /\ FROM_val = 1 /\ N_val = LIMIT_MAX
   /\ num_chunks = 0 /\ issued = 0

\* ------------------------------------------------- runs to the largest N
\* the primes of [F, N] among the first integers
FirstPrimes == PrimesIn(FROM_val, Min(N_val, MaxNOrdered))

\* C2, for the primes among the first integers of a range of any length: a
\* finished PRINT run has printed each of them, a finished COUNT run has
\* counted at least that many.
C2_FirstPrimesEmitted ==
   Done =>
      /\ run_mode = MODE_PRINT => FirstPrimes \subseteq Emitted(stdout)
      /\ run_mode = MODE_COUNT => Result >= Cardinality(FirstPrimes)

\* primes1 -p from 1 to the largest N has ended and 5 is on no line
C2_PrimeMissed ==
   /\ impl = "omp" /\ phase = "exit" /\ run_mode = MODE_PRINT
   /\ FROM_val = 1 /\ N_val = LIMIT_MAX
   /\ 5 \in FirstPrimes /\ 5 \notin Emitted(stdout)

\* C7, the lines of a PRINT run of any length: 2 is on a line iff
\* F <= 2 <= N and 3 iff F <= 3 <= N, each on one line at most.
C7_TwoAndThreePrinted ==
   Done /\ run_mode = MODE_PRINT =>
      \A p \in {2, 3} :
         LET at == {e \in LFs(stdout) : LineValue(stdout, e) = p}
         IN  /\ (at # {}) <=> (FROM_val <= p /\ p <= N_val)
             /\ Cardinality(at) <= 1

\* primes1 -p from 2 to the largest N has ended without a line 2
C7_TwoMissed ==
   /\ impl = "omp" /\ phase = "exit" /\ run_mode = MODE_PRINT
   /\ FROM_val = 2 /\ N_val = LIMIT_MAX
   /\ 2 \notin Emitted(stdout)

\* ---------------------------------------------------- number of chunks
\* N - F_adj + step_sz fits the word
SumFits == N_val - FROM_adj + step_sz < WordLimit

\* the quotient (N - F_adj + step_sz) / step_sz rounded up
CeilChunks == (N_val - FROM_adj + step_sz + step_sz - 1) \div step_sz

PreComposite(p, v) == \E d \in PrePrimes(p) : v % d = 0 /\ v > d

\* the template bits the model holds
HeldBits == 8 * TemplateBytes(prof, FROM_adj, N_val)

\* index x lies in the first byte of a template that starts at 1, which
\* holds 0xc0 (0x80): the bits of the pre-sieve primes are clear
InFirstByte(x) == FROM_adj = 1 /\ x <= prof.nPre

\* C22: in the template built for j_off = (F_adj - 1) / 3, a bit x of
\* 1..sieve_sz is clear iff (F_adj - 1) + value(x) is a composite that a
\* pre-sieve prime divides, or the prime itself in the first byte of a
\* template that starts at 1; every bit past sieve_sz is clear.
C22_TemplateBits ==
   TablesBuilt =>
      \A x \in 1..(HeldBits - 1) :
         IF x <= sieve_sz_of(prof)
         THEN ~GETBIT(pre_sieve, x)
                 <=> (PreComposite(prof, ValueAt(FROM_adj - 1, x))
                      \/ InFirstByte(x))
         ELSE ~GETBIT(pre_sieve, x)

\* a template that starts at 7 under the pre-sieve of 5, 7 and 11: the bit
\* of 11 is set, those of 25, 35 and 49 are clear, and the bits past
\* sieve_sz, which the walks do not all reach, are clear
C22_Witness ==
   /\ TablesBuilt /\ prof.name = "wheel11" /\ FROM_adj = 7
   /\ ValueAt(6, 1) = 11 /\ GETBIT(pre_sieve, 1)
   /\ ValueAt(6, 6) = 25 /\ ~GETBIT(pre_sieve, 6)
   /\ ValueAt(6, 9) = 35 /\ ~GETBIT(pre_sieve, 9)
   /\ ValueAt(6, 14) = 49 /\ ~GETBIT(pre_sieve, 14)
   /\ HeldBits - 1 > sieve_sz_of(prof)
   /\ PreSieveTemplateNoTail(prof, FROM_adj, N_val) # pre_sieve

\* ------------------------------------------------ the small-primes table
\* the integer at wheel index i
WheelValue(i) == IF i % 2 = 1 THEN 3 * i + 2 ELSE 3 * i + 1

\* C23: in the table built for N, bit 0 is clear and for every i of 1..q,
\* q = isqrt(N) / 3, bit i is set iff the integer at wheel index i is prime.
C23_SmallPrimesTable ==
   TablesBuilt =>
      /\ ~GETBIT(is_prime, 0)
      /\ \A i \in 1..q_of(N_val) :
            GETBIT(is_prime, i) <=> IsPrime(WheelValue(i))

\* the table of the largest N: 32749, the last prime of the table, is set,
\* and the composites 25, 3599 = 59 * 61 and 32761 = 181 * 181 are clear
C23_Witness ==
   /\ TablesBuilt /\ N_val = LIMIT_MAX /\ q_of(N_val) = 10922
   /\ WheelValue(10916) = 32749 /\ GETBIT(is_prime, 10916)
   /\ WheelValue(8) = 25 /\ ~GETBIT(is_prime, 8)
   /\ WheelValue(1199) = 3599 /\ ~GETBIT(is_prime, 1199)
   /\ WheelValue(10920) = 32761 /\ ~GETBIT(is_prime, 10920)

\* -------------------------------------------------- the composite walk
\* the wheel index of an integer coprime to 6
WheelIndex(v) == v \div 3

\* the locals of the loop in hand, and the integer at its index i
Loc == wk[1]

LocP == WheelValue(Loc.i)

\* the stride the recurrence sets at the start of a walk
FirstStride == 2 * Loc.i * (3 - Loc.k) + 1

\* the walk of the pass in hand followed from index j without a skip, up to
\* its first index at or past target: <<j, ij>>
RECURSIVE WalkTo(_, _, _, _)
WalkTo(j, ij, t, target) ==
   IF j >= target THEN <<j, ij>> ELSE WalkTo(j + ij, t - ij, t, target)

\* the skip-ahead has just run and had indexes to skip
Skipped ==
   /\ phase = "kernel" /\ Loc.pc = "walk" /\ Loc.n = 0
   /\ Loc.c < KernelJoff

\* j_off is itself an index of the walk: the array starts at a multiple of p
StartOnWalk == (KernelJoff - Loc.c) % Loc.t = 0

\* C24: after the skip-ahead of a walk whose start index c is below j_off,
\* j is the first index of the walk at or past j_off, or the first one past
\* j_off when j_off is itself an index of the walk, and ij is the stride the
\* walk followed from c applies next at that index.
C24_SkipAhead ==
   Skipped =>
      <<Loc.j, Loc.ij>>
         = WalkTo(Loc.c, FirstStride, Loc.t,
                  IF StartOnWalk THEN KernelJoff + 1 ELSE KernelJoff)

\* the two cases of the skip: one stride past the whole periods (the walk of
\* 7 in the array from 121 lands on 133) and two (the walk of 5 in the array
\* from 7)
C24_Witness ==
   /\ Skipped /\ ~StartOnWalk
   /\ \/ Loc.start = 121 /\ LocP = 7 /\ WheelValue(Loc.j) = 133
      \/ Loc.start = 1003 /\ LocP = 5 /\ WheelValue(Loc.j) = 1015
   /\ Loc.j >= KernelJoff

\* C24 as stated: j is the first index of the walk at or past j_off.
C24_FirstAtOrPast ==
   Skipped =>
      <<Loc.j, Loc.ij>> = WalkTo(Loc.c, FirstStride, Loc.t, KernelJoff)

\* the array starts at 385 = 5 * 7 * 11 and the skip-ahead of the walk of 7
\* has passed index j_off, the index of 385
C24_StartSkipped ==
   /\ Skipped /\ StartOnWalk
   /\ Loc.start = 385 /\ LocP = 7
   /\ WheelValue(KernelJoff) = 385
   /\ Loc.j > KernelJoff

\* C25: after the recurrence at step i, c is the wheel index of p * p, p
\* the integer at index i, and j = c; the n-th index the walk then visits
\* (n from 0) is the wheel index of p * m, m the n-th integer coprime to 6
\* from p on; every index a walk visits, skipped ahead or not, is that of a
\* multiple of p from p * p on, and the stride in hand leads to the next.
C25_WalkOfMultiples ==
   phase = "kernel" /\ Loc.pc \in {"skip", "walk"} =>
      /\ Loc.c = WheelIndex(LocP * LocP)
      /\ Loc.t = 2 * LocP
      /\ Loc.pc = "skip" => Loc.j = Loc.c /\ Loc.ij = FirstStride
      /\ Loc.pc = "walk" =>
            /\ WheelValue(Loc.j) % LocP = 0
            /\ WheelValue(Loc.j) >= LocP * LocP
            /\ Loc.ij > 0 /\ Loc.ij < Loc.t
            /\ WheelValue(Loc.j + Loc.ij) % LocP = 0
            /\ \A x \in (Loc.j + 1)..(Loc.j + Loc.ij - 1) :
                  WheelValue(x) % LocP # 0
      /\ Loc.pc = "walk" /\ Loc.c >= KernelJoff =>
            Loc.j = WheelIndex(LocP * WheelValue(Loc.i + Loc.n))

\* the walk of 7 from 49 has visited the indexes of 49, 77, 91 and 119 and
\* stands on that of 133 = 7 * 19
C25_Witness ==
   /\ phase = "kernel" /\ Loc.pc = "walk" /\ Loc.start = 1
   /\ Loc.i = 2 /\ LocP = 7 /\ Loc.c = 16 /\ Loc.n = 4
   /\ Loc.j = WheelIndex(133)
   /\ \A v \in {49, 77, 91, 119} : ~GETBIT(Loc.sieve, WheelIndex(v))

\* ------------------------------------------------- the worker's constants
\* the recurrence run from (0, 1, 2) through steps 1..n
RECURSIVE RecurFromOne(_)
RecurFromOne(n) ==
   IF n = 0 THEN [i |-> 1, c |-> 0, k |-> 1, t |-> 2, ij |-> 0]
   ELSE LET st == RecurFromOne(n - 1)
            r == Recur(st)
        IN  [i |-> st.i + 1, c |-> r.c, k |-> r.k, t |-> r.t, ij |-> r.ij]

\* C30: the constants the worker's loop starts with are the state of the
\* recurrence after steps 1..nPre ((96, 2, 34) after 1..5, (120, 1, 38)
\* after 1..6), and at every later step the worker's (c, k, t, ij) are those
\* of the recurrence run from (0, 1, 2).
C30_WorkerConstants ==
   phase = "kernel" /\ Loc.loop = "worker" =>
      /\ Loc.pc = "recur" =>
            LET st == RecurFromOne(Loc.i - 1)
            IN  Loc.c = st.c /\ Loc.k = st.k /\ Loc.t = st.t
      /\ Loc.pc = "skip" =>
            LET st == RecurFromOne(Loc.i)
            IN  /\ Loc.c = st.c /\ Loc.k = st.k /\ Loc.t = st.t
                /\ Loc.ij = st.ij

\* a worker under N < 1e12 has taken step 6 from (96, 2, 34), the state
\* the recurrence has after steps 1..5, and stands at the square of 19
C30_Witness ==
   /\ phase = "kernel" /\ Loc.loop = "worker" /\ prof.name = "full"
   /\ Loc.pc = "skip" /\ Loc.i = 6
   /\ LET st == RecurFromOne(5)
      IN  <<st.c, st.k, st.t>> = <<96, 2, 34>>
   /\ RecurFromOne(6).c = 120 /\ RecurFromOne(6).t = 38
   /\ Loc.c = WheelIndex(19 * 19) /\ Loc.ij = RecurFromOne(6).ij

\* --------------------------------------------------- indexes in bounds
\* bit index x lies inside an array of n bytes
InBytes(x, n) == 0 <= x /\ x \div 8 < n

\* the bytes malloc is asked for: is_prime and pre_sieve
IsPrimeBytes == (q_of(N_val) + 2 + 7) \div 8

PreSieveBytes == mem_sz_p_of(prof)

\* the indexes the setup uses: bit 0 and the walks up to q on is_prime; bit
\* 0, byte 0, the walks from their first index (the loop ends them at the
\* last byte) and the bits past sieve_sz on pre_sieve
TablesInBounds ==
   /\ InBytes(0, IsPrimeBytes) /\ InBytes(q_of(N_val), IsPrimeBytes)
   /\ DOMAIN is_prime = 0..(IsPrimeBytes - 1)
   /\ InBytes(0, PreSieveBytes)
   /\ InBytes(sieve_sz_of(prof) + 1, PreSieveBytes)
   /\ DOMAIN pre_sieve = 0..(TemplateBytes(prof, FROM_adj, N_val) - 1)
   /\ \A i \in 1..prof.nPre :
         LET r == Recur(RecurFromOne(i - 1))
             j_off == (FROM_adj - 1) \div 3
         IN  SkipAhead(r.c, r.ij, r.t, j_off)[1] >= j_off

\* the indexes a worker uses on the chunk [start, stop]: the mem_sz bytes
\* copied from the template; bits 1 and 2; bits M, M + 1 and on to the last;
\* is_prime up to q of the chunk; the walks from their first index to
\* M2 - j_off; the output loop up to M + 1
ChunkInBounds(start, stop) ==
   LET M == M_of(start, stop)
       mem_sz == mem_sz_of(start, stop)
       j_off == (start - 1) \div 3
   IN  /\ mem_sz >= 1 /\ mem_sz <= PreSieveBytes
       /\ InBytes(2, mem_sz)
       /\ M >= 0 /\ InBytes(M + 1, mem_sz)
       /\ InBytes(q_of(stop), IsPrimeBytes)
       /\ InBytes(M2_of(stop) - j_off, mem_sz)
       /\ \A i \in (prof.nPre + 1)..q_of(stop) :
             FirstCleared(prof, i, start) >= 0
       /\ InBytes(LastInspected(M), mem_sz)

\* C26: the tables are of the size allocated and every index the setup
\* uses on them lies inside; for every chunk a worker is about to sieve or
\* holds, every index read or written on the segment, on is_prime and on
\* the template lies inside the bytes allocated, the copied bytes included.
C26_IndexesInBounds ==
   phase = "run" =>
      /\ TablesInBounds
      /\ \A w \in 1..MaxWorkers :
            \A ch \in ChunksOf(w) :
               /\ ChunkInBounds(ch[1], ch[2])
               /\ wk[w].pc \in {"sieved", "emitting"} =>
                     DOMAIN wk[w].sieve = 0..(mem_sz_of(ch[1], ch[2]) - 1)

\* a worker holds the sieved chunk [1, 67]: M = 22, bit M + 1 is the last
\* bit of the 3 bytes allocated, the walks may run up to bit M, and the
\* walk of 5 has cleared the bit of 65
C26_Witness ==
   /\ phase = "run"
   /\ \E w \in 1..MaxWorkers :
         /\ wk[w].pc = "sieved" /\ wk[w].start = 1 /\ wk[w].stop = 67
         /\ LET M == M_of(wk[w].start, wk[w].stop)
            IN  /\ M + 1 = 8 * mem_sz_of(wk[w].start, wk[w].stop) - 1
                /\ M2_of(wk[w].stop) = M
                /\ DOMAIN wk[w].sieve = 0..2
                /\ ~GETBIT(wk[w].sieve, 21)

\* The sizes and last indexes of C26 for the chunk just computed, on the
\* chunk bounds alone: they hold as well for the chunks that end at the
\* largest N.
C26_BoundsOfLargest ==
   wk[1].pc = "have" =>
      LET start == wk[1].start
          stop == wk[1].stop
          M == M_of(start, stop)
          mem_sz == mem_sz_of(start, stop)
      IN  /\ mem_sz >= 1 /\ mem_sz <= PreSieveBytes
          /\ InBytes(2, mem_sz)
          /\ M >= 0 /\ InBytes(M + 1, mem_sz)
          /\ InBytes(q_of(stop), IsPrimeBytes)
          /\ InBytes(M2_of(stop) - (start - 1) \div 3, mem_sz)
          /\ InBytes(LastInspected(M), mem_sz)

\* ---------------------------------------------------------------- C27
\* half the distance of neighbouring doubles at the literal T
Slack(T) == IF BitLen(T) <= MantBits THEN 0 ELSE 2^(BitLen(T) - MantBits - 1)

Stepped == phase \in {"stepped", "checked", "exit"}

WheelModulus(N) == IF N < Decade(0) THEN 510510 ELSE 9699690

\* C27 (amended): the step is 510510*12 below the first rung and 9699690*m
\* above it, where m counts the rungs N has reached, a rung 10^k counting as
\* reached from 10^k minus half the spacing of doubles at 10^k on; the step
\* is a multiple of the wheel modulus of the pre-sieve set chosen with it and
\* the precalc step-size check never fails.
C27_LadderOfDoubles ==
   Stepped =>
      /\ prof.step_sz =
            IF N_val < Decade(0) THEN 510510 * 12
            ELSE 9699690 *
                 (1 + Cardinality({k \in 1..7 :
                                     N_val + Slack(Decade(k)) >= Decade(k)}))
      /\ prof.step_sz % WheelModulus(N_val) = 0
      /\ prof.nPre = IF N_val < Decade(0) THEN 5 ELSE 6
      /\ phase # "exit"
      /\ exit_status # 2

\* a limit just below a rung takes the multiplier of the rung
C27_Witness ==
   /\ phase = "checked"
   /\ N_val = Decade(7) - 1
   /\ prof.step_sz = 9699690 * 8

\* C27 as stated: the multiplier is that of the decade N lies in
C27_LadderOfDecades ==
   Stepped =>
      prof.step_sz =
         IF N_val < Decade(0) THEN 510510 * 12
         ELSE 9699690 *
              (1 + Cardinality({k \in 1..7 : N_val >= Decade(k)}))

\* the part of C27 that stands: the step always fits the pre-sieve set
C27_StepFitsWheel ==
   Stepped =>
      /\ prof.step_sz % WheelModulus(N_val) = 0
      /\ phase # "exit"

\* ---------------------------------------------------------------- C28
\* thread w - 1 starts an iteration of the parallel loop
TakesChunk(w) == wk[w].pc = "idle" /\ wk'[w].pc # "idle"

\* thread w - 1 ends an iteration
EndsChunk(w) == wk[w].pc # "idle" /\ wk'[w].pc = "idle"

\* the ids thread w - 1 has yet to run: those of its residue from next on
Ahead(w) ==
   {c \in 0..(num_chunks - 1) : c % max_workers = w - 1 /\ c >= wk[w].next}

\* C28: the chunks of primes1 are dealt round-robin: the chunk a thread
\* starts has an id congruent to the thread's number modulo the number of
\* threads T and is the lowest id of that residue the thread has not run
\* yet; when the thread ends the chunk, exactly that id leaves the ids it has
\* yet to run.  So chunk c is run by thread c mod T and every thread runs its
\* chunks in ascending order of their ids.
C28_StaticRoundRobin ==
   [][phase = "run" =>
      \A w \in Workers :
         /\ TakesChunk(w) =>
               /\ wk'[w].chunk_id % max_workers = w - 1
               /\ wk'[w].chunk_id \in Ahead(w)
               /\ \A c \in Ahead(w) : wk'[w].chunk_id <= c
               /\ Ahead(w)' = Ahead(w)
         /\ EndsChunk(w) => Ahead(w)' = Ahead(w) \ {wk[w].chunk_id}
         /\ Ahead(w)' \subseteq Ahead(w)]_vars

\* the second thread of two has started its second chunk, chunk 3, while
\* the first is at chunk 2
C28_Witness ==
   /\ impl = "omp" /\ max_workers = 2
   /\ wk[2].pc = "sieved" /\ wk[2].chunk_id = 3
   /\ wk[1].pc # "idle" /\ wk[1].chunk_id = 2

\* ---------------------------------------------------------------- C29
\* the chunks that cover [F_adj, N]
ChunksNeeded == (N_val - FROM_adj) \div step_sz + 1

\* C29 as stated: for primes1 the sum N - F_adj + step_sz is the same in
\* the word as in the integers, and the loop over the chunks ends after
\* floor((N - F_adj) / step_sz) + 1 chunks.
C29_SumNeverWraps ==
   impl = "omp" =>
      /\ U64(N_val - FROM_adj + step_sz) = N_val - FROM_adj + step_sz
      /\ phase = "chunked" => issued = ChunksNeeded

\* primes1 on a range whose sum exceeds the word: the wrapped sum is below
\* step_sz and the loop has ended short of the chunks that cover the range
C29_SumWraps ==
   /\ impl = "omp" /\ phase = "chunked"
   /\ FROM_val <= N_val /\ N_val <= LIMIT_MAX
   /\ N_val - FROM_adj + step_sz >= WordLimit
   /\ U64(N_val - FROM_adj + step_sz) < step_sz
   /\ issued < ChunksNeeded

\* the part of C29 that stands: without a wrap no chunk is omitted
C29_NoWrapNoneOmitted ==
   impl = "omp" /\ phase = "chunked" /\ SumFits => issued = ChunksNeeded

====
